---- MODULE Spec2Model ----
(***************************************************************************)
(* Notification dispatch engine of loader01hash/Notification-System.      *)
(*                                                                         *)
(*   core/patterns/__init__.py       CircuitBreaker, channel factory       *)
(*   apps/notifications/channels.py  TelegramChannel / EmailChannel        *)
(*   apps/notifications/models.py    Notification lifecycle methods        *)
(*   apps/notifications/services.py  NotificationService.send_notification *)
(*   apps/notifications/tasks.py     send_notification_task and sweeps     *)
(*   apps/orders/models.py           Order.update_status                   *)
(*                                                                         *)
(* Seventeen specifications share the module:                                 *)
(*   SpecCB     one CircuitBreaker object used by several callers of       *)
(*              Channel.send (the class taken on its own);                 *)
(*   Spec       the task layer: queued send tasks executed by workers      *)
(*              against one Notification row, each database access a      *)
(*              step, with the sweeps and the retry endpoint;              *)
(*   SpecOnce   the task layer for a notification enqueued once;           *)
(*   SpecAttempts the same with room for every execution the retries of    *)
(*              one enqueued task can cause;                               *)
(*   SpecDirect sends made one after the other by the admin send view;     *)
(*   SpecRead   the send task next to the user's mark-as-read views;       *)
(*   SpecLife   the lifecycle methods of a Notification object, called on  *)
(*              an object in any status;                                   *)
(*   SpecCreate create_notification and send_bulk_notifications on the     *)
(*              notifications table;                                       *)
(*   SpecSched  the send view, the scheduled sweep and the send task on    *)
(*              the table, with a clock;                                   *)
(*   SpecKeep   cleanup_old_notifications on a table with sends,           *)
(*              deliveries and a clock in days;                            *)
(*   SpecLive   one worker and both sweeps under weak fairness, with       *)
(*              tasks that may be lost;                                    *)
(*   SpecFactory the channel factory: register_channel, create_channel;    *)
(*   SpecValidate validate_recipient of one TelegramChannel object;        *)
(*   SpecRetry  retry_failed_notifications on a table of rows left by      *)
(*              finished and interrupted send tasks;                       *)
(*   SpecMerge  send_bulk_notifications with global and per-entry          *)
(*              contexts;                                                  *)
(*   SpecRender _render_template on template strings and contexts;         *)
(*   SpecOrder  Order.update_status and the order-update task.             *)
(***************************************************************************)
EXTENDS Integers, Sequences, FiniteSets, TLC

VARIABLES
    \* ---- SpecCB: a CircuitBreaker instance and its callers
    cb,          \* the CircuitBreaker object's fields
    now,         \* time.time(), in whole ticks
    cpc,         \* per caller: "idle" | "infunc" (inside the wrapped function)
    admittedIn,  \* per caller: breaker state under which its call was let through
    consecRaises,\* history: wrapped-function failures since the last normal return
    lastOp,      \* history: the last breaker step and the breaker before it
    \* ---- Spec: the task layer
    db,          \* the Notification row
    queue,       \* broker: number of queued send tasks per celery request.retries
    pc,          \* per worker: position inside send_notification_task
    loc,         \* per worker: the in-memory Notification object
    req,         \* per worker: self.request.retries of the running task
    seen,        \* per worker: status the task read when it started (history)
    log,         \* NotificationLog rows of the notification, in creation order
    success,     \* per worker: what service.send_notification returned
    netCalls,    \* history: network attempts made for the notification
    chanFails,   \* history: consecutive channel sends whose network call raised
    direct,      \* notifications created and sent synchronously by the admin
                 \* send view, each with its log rows
    breakers,    \* per channel type: the breaker of the channel object most
                 \* recently constructed for it, after its call (<<>>: none yet)
    life,        \* SpecLife: a Notification object and the last lifecycle
                 \* method called on it
    \* ---- the notifications table and what works on all of it
    store,       \* Notification rows, row i has id i (live: not deleted)
    logTable,    \* NotificationLog rows of all notifications, creation order
    enq,         \* broker: the queued send tasks, in the order they were sent
    ret,         \* history: the last service, view or sweep call and its result
    registry,    \* NotificationChannelFactory._channels
    \* ---- SpecOrder
    order        \* an Order: the object a request works on, its row, and the
                 \* order-update tasks sent to the broker

cbVars == <<cb, now, cpc, admittedIn, consecRaises, lastOp>>
taskVars == <<db, queue, pc, loc, req, seen, log, success, netCalls, chanFails,
              direct, breakers, life>>
appVars == <<store, logTable, enq, ret, registry, order>>
vars == <<cb, now, cpc, admittedIn, consecRaises, lastOp,
          db, queue, pc, loc, req, seen, log, success, netCalls, chanFails,
          direct, breakers, life, store, logTable, enq, ret, registry,
          order>>

(***************************************************************************)
(* Bounds of the model.                                                    *)
(***************************************************************************)
\* largest failure_threshold a breaker is constructed with in SpecCB
MaxThreshold == 3
\* largest recovery_timeout (ticks) a breaker is constructed with in SpecCB
MaxTimeout == 2
\* the clock stops advancing here
MaxTime == 4
\* retry_count beyond which SpecLife calls increment_retry no more
MaxLifeRetry == 4
\* task executions begun in one behaviour of Spec
MaxStarted == 2
\* task executions begun in one behaviour of SpecOnce
MaxStartedOnce == 3
\* queued send tasks beyond which the sweeps and the retry endpoint add none
MaxQueue == 2
\* notifications sent through the admin send view in SpecDirect
MaxDirect == 4
\* calls of register_channel in SpecFactory
MaxRegs == 3
\* task executions begun in SpecLive
MaxStartedLive == 3
\* notifications ever inserted in the table layer
MaxRows == 2
\* entries of one bulk request
MaxBulk == 2
\* send tasks waiting in the table layer's queue
MaxEnq == 2
\* NotificationLog rows ever written in the table layer
MaxLogs == 1
\* characters of a recipient handed to validate_recipient
MaxRecipientLen == 2
\* send-task executions of SpecAttempts
MaxStartedAttempts == 5
\* tokens of a template string
MaxTokens == 2
\* order-update tasks waiting on the broker
MaxOrderTasks == 1

(***************************************************************************)
(* Program constants.                                                      *)
(***************************************************************************)
\* CircuitBreaker(failure_threshold=3, ...) in both channels
ChannelFailureThreshold == 3
\* CircuitBreaker(..., recovery_timeout=300) in both channels
ChannelRecoveryTimeout == 300
\* Notification.max_retries default
DefaultMaxRetries == 3
\* @shared_task(bind=True, max_retries=3)
TaskMaxRetries == 3
\* cleanup_old_notifications: timedelta(days=30)
RetentionDays == 30
\* countdown = 60 * (2 ** notification.retry_count)
BackoffBase == 60

\* channel types registered with the factory by register_channels
RegisteredChannels == {"telegram", "email"}
\* a template channel name for which no class is registered
UnregisteredChannel == "sms"

Callers == {"t1", "t2"}
Workers == {"w1", "w2"}

(***************************************************************************)
(* CircuitBreaker (core/patterns/__init__.py).  last_failure_time is <<>>  *)
(* for None and <<t>> once stamped.                                        *)
(***************************************************************************)
CircuitBreakerInit(threshold, timeout) ==
    [failure_threshold |-> threshold,
     recovery_timeout  |-> timeout,
     failure_count     |-> 0,
     last_failure_time |-> <<>>,
     state             |-> "closed"]

\* _should_attempt_reset
ShouldAttemptReset(b, t) ==
    (t - b.last_failure_time[1]) >= b.recovery_timeout

\* faulty variant of _on_success: the breaker is not closed
OnSuccessKeepsState(b) ==
    [b EXCEPT !.failure_count = 0]

\* _on_success
OnSuccess(b) ==
    [b EXCEPT !.failure_count = 0, !.state = "closed"]

\* faulty variant of _on_failure: trips only above the threshold
OnFailureStrict(b, t) ==
    [b EXCEPT !.failure_count = @ + 1,
              !.last_failure_time = <<t>>,
              !.state = IF b.failure_count + 1 > b.failure_threshold
                        THEN "open" ELSE @]

\* _on_failure
OnFailure(b, t) ==
    [b EXCEPT !.failure_count = @ + 1,
              !.last_failure_time = <<t>>,
              !.state = IF b.failure_count + 1 >= b.failure_threshold
                        THEN "open" ELSE @]

\* faulty variant of the gate: a rejection is booked as a failure
CallGateCountsRejection(b, t) ==
    IF b.state = "open"
    THEN IF ShouldAttemptReset(b, t)
         THEN [admitted |-> TRUE, cb |-> [b EXCEPT !.state = "half_open"]]
         ELSE [admitted |-> FALSE, cb |-> OnFailure(b, t)]
    ELSE [admitted |-> TRUE, cb |-> b]

\* CircuitBreaker.call up to the invocation of func: the open-state gate.
\* admitted = FALSE is `raise Exception("Circuit breaker is OPEN")`.
CallGate(b, t) ==
    IF b.state = "open"
    THEN IF ShouldAttemptReset(b, t)
         THEN [admitted |-> TRUE, cb |-> [b EXCEPT !.state = "half_open"]]
         ELSE [admitted |-> FALSE, cb |-> b]
    ELSE [admitted |-> TRUE, cb |-> b]

\* Outcomes of the wrapped function: returns True, returns False (Telegram
\* answering ok=false), or raises.
Outcomes == {"ok", "false", "raise"}

\* what the wrapped function of a channel type can do: _send_telegram_message
\* returns True, returns False or raises; _send_email returns True or raises
OutcomesOf(ch) ==
    IF ch = "telegram" THEN Outcomes
    ELSE IF ch = "email" THEN {"ok", "raise"}
    ELSE {"none"}

\* CircuitBreaker.call as a whole for a wrapped function that will do
\* `outcome`: the gate, then _on_success or _on_failure
BreakerCall(b, t, outcome) ==
    LET g == CallGate(b, t) IN
        IF ~g.admitted THEN g
        ELSE [admitted |-> TRUE,
              cb |-> IF outcome = "raise" THEN OnFailure(g.cb, t)
                     ELSE OnSuccess(g.cb)]

\* Channel.send: the breaker's result, or False for any exception
\* (a raising function as well as the breaker's own rejection).
ChannelSendResult(admitted, outcome) ==
    admitted /\ outcome = "ok"

(***************************************************************************)
(* SpecCB: callers of Channel.send sharing one CircuitBreaker object.      *)
(* A call is two steps, the gate and the wrapped function's outcome; the   *)
(* wrapped function (the network call) runs between them.                  *)
(***************************************************************************)
\* lastOp before any step.  kind: "admit" | "reject" | "return" | "raise" |
\* "tick"; pre: the breaker before the step; invoked: how many times the step
\* entered the wrapped function; outcome: what the wrapped function did;
\* result: what Channel.send returned to its caller.
NoOp == [kind |-> "none", caller |-> "none", pre |-> CircuitBreakerInit(1, 1),
         invoked |-> 0, outcome |-> "none", result |-> FALSE]

\* Channel.send -> circuit_breaker.call: the gate, then func is entered
\* (admitted) or the breaker's exception is caught and send returns False.
SendEnter(c) ==
    /\ cpc[c] = "idle"
    /\ LET g == CallGate(cb, now) IN
        /\ cb' = g.cb
        /\ IF g.admitted
           THEN /\ cpc' = [cpc EXCEPT ![c] = "infunc"]
                /\ admittedIn' = [admittedIn EXCEPT ![c] = g.cb.state]
           ELSE UNCHANGED <<cpc, admittedIn>>
        /\ lastOp' = [kind |-> IF g.admitted THEN "admit" ELSE "reject",
                      caller |-> c, pre |-> cb,
                      invoked |-> IF g.admitted THEN 1 ELSE 0,
                      outcome |-> "none",
                      result |-> ChannelSendResult(g.admitted, "raise")]
    /\ UNCHANGED <<now, consecRaises>>
    /\ UNCHANGED <<taskVars, appVars>>

\* func returns (True, or False for Telegram's ok=false): _on_success
FuncReturn(c) ==
    /\ cpc[c] = "infunc"
    /\ \E outcome \in {"ok", "false"} :
        /\ cb' = OnSuccess(cb)
        /\ lastOp' = [kind |-> "return", caller |-> c, pre |-> cb,
                      invoked |-> 0, outcome |-> outcome,
                      result |-> ChannelSendResult(TRUE, outcome)]
    /\ cpc' = [cpc EXCEPT ![c] = "idle"]
    /\ consecRaises' = 0
    /\ UNCHANGED <<now, admittedIn>>
    /\ UNCHANGED <<taskVars, appVars>>

\* func raises: _on_failure, re-raised, caught by Channel.send
FuncRaise(c) ==
    /\ cpc[c] = "infunc"
    /\ cb' = OnFailure(cb, now)
    /\ lastOp' = [kind |-> "raise", caller |-> c, pre |-> cb,
                  invoked |-> 0, outcome |-> "raise",
                  result |-> ChannelSendResult(TRUE, "raise")]
    /\ cpc' = [cpc EXCEPT ![c] = "idle"]
    /\ consecRaises' = consecRaises + 1
    /\ UNCHANGED <<now, admittedIn>>
    /\ UNCHANGED <<taskVars, appVars>>

\* time passes
Tick ==
    /\ now < MaxTime
    /\ now' = now + 1
    /\ lastOp' = [lastOp EXCEPT !.kind = "tick"]
    /\ UNCHANGED <<cb, cpc, admittedIn, consecRaises>>
    /\ UNCHANGED <<taskVars, appVars>>

(***************************************************************************)
(* Notification (apps/notifications/models.py).  n is a Notification       *)
(* object: the database row, or a worker's in-memory copy of it.           *)
(***************************************************************************)
\* faulty variant of can_retry: one retry too many
CanRetryInclusive(n) ==
    n.retry_count <= n.max_retries /\ n.status = "failed"

\* can_retry
CanRetry(n) ==
    n.retry_count < n.max_retries /\ n.status = "failed"

\* a Notification as create_notification leaves it, for a template of
\* channel ch: the model's defaults
NewNotification(ch) ==
    [status |-> "pending", retry_count |-> 0,
     max_retries |-> DefaultMaxRetries, channel |-> ch,
     sent_at |-> FALSE, delivered_at |-> FALSE, error_message |-> ""]

\* mark_as_sent, on the object (sent_at: TRUE once stamped)
MarkAsSent(n) == [n EXCEPT !.status = "sent", !.sent_at = TRUE]

\* mark_as_delivered, on the object
MarkAsDelivered(n) == [n EXCEPT !.status = "delivered", !.delivered_at = TRUE]

\* mark_as_failed(error_message), on the object
MarkAsFailed(n, msg) ==
    [n EXCEPT !.status = "failed",
              !.error_message = IF msg # "" THEN msg ELSE @]

\* increment_retry, on the object
IncrementRetry(n) ==
    [n EXCEPT !.retry_count = @ + 1, !.status = "retrying"]

\* save(update_fields=['status', ...]): only the status column is written
SaveStatus(row, n) == [row EXCEPT !.status = n.status]

\* save(update_fields=['status', 'sent_at', ...])
SaveSent(row, n) == [row EXCEPT !.status = n.status, !.sent_at = n.sent_at]

\* save(update_fields=['status', 'delivered_at', ...])
SaveDelivered(row, n) ==
    [row EXCEPT !.status = n.status, !.delivered_at = n.delivered_at]

\* save(update_fields=['status', 'error_message', ...])
SaveFailed(row, n) ==
    [row EXCEPT !.status = n.status, !.error_message = n.error_message]

\* save(update_fields=['retry_count', 'status', ...])
SaveRetry(row, n) ==
    [row EXCEPT !.retry_count = n.retry_count, !.status = n.status]

(***************************************************************************)
(* NotificationService.send_notification (apps/notifications/services.py). *)
(***************************************************************************)
\* NotificationChannelFactory.create_channel: channel_class(), a new
\* channel object whose __init__ constructs its own CircuitBreaker
\* <<channel>>, or <<>> for None when no class is registered for the type
CreateChannel(ch) ==
    IF ch \in RegisteredChannels
    THEN <<[circuit_breaker |-> CircuitBreakerInit(ChannelFailureThreshold,
                                                   ChannelRecoveryTimeout)]>>
    ELSE <<>>

\* _log_notification_attempt: the row written for object n
LogRow(n, status, error_message) ==
    [attempt_number |-> n.retry_count + 1,
     status |-> status,
     error_message |-> error_message]

\* send_notification of object n for a wrapped function that will do
\* `outcome`: network says whether the wrapped function was entered, success
\* is the value returned to the caller, row the NotificationLog row written,
\* cb the channel object's breaker after the call (<<>>: no channel object).
\* The notification object itself is not touched.
ServiceSend(n, outcome) ==
    LET channel == CreateChannel(n.channel) IN
        IF channel = <<>>
        THEN [network |-> FALSE, success |-> FALSE, cb |-> <<>>,
              row |-> LogRow(n, "failed", "Channel not available")]
        ELSE LET c == BreakerCall(channel[1].circuit_breaker, now, outcome)
                 ok == ChannelSendResult(c.admitted, outcome)
             IN  [network |-> c.admitted, success |-> ok, cb |-> <<c.cb>>,
                  row |-> LogRow(n, IF ok THEN "sent" ELSE "failed", "")]

\* faulty variant: one breaker behind every channel type
RecordBreakerShared(brs, ch, b) ==
    IF b = <<>> THEN brs ELSE [c \in DOMAIN brs |-> b]

\* self.circuit_breaker is an attribute of the channel object: the breaker of
\* the object a send just used replaces the one remembered for its type only
RecordBreaker(brs, ch, b) ==
    IF b = <<>> THEN brs ELSE [brs EXCEPT ![ch] = b]

(***************************************************************************)
(* Broker.  A queued send task is identified by its celery                 *)
(* request.retries; queue[r] counts the waiting tasks with retries = r.    *)
(***************************************************************************)
RECURSIVE QueueSum(_, _)
QueueSum(q, r) == IF r < 0 THEN 0 ELSE q[r] + QueueSum(q, r - 1)

QueueLen(q) == QueueSum(q, TaskMaxRetries)

\* send_notification_task.delay(id): a fresh task, retries = 0
Delay(q) == [q EXCEPT ![0] = @ + 1]

\* Task.retry(countdown=...) of a task whose request.retries is r: the retry
\* (retries = r + 1) is sent to the broker and Retry is raised; past the
\* task's max_retries nothing is sent and MaxRetriesExceededError (or exc)
\* is raised.  Either exception is an Exception.
SelfRetry(q, r) ==
    IF r + 1 > TaskMaxRetries THEN q ELSE [q EXCEPT ![r + 1] = @ + 1]

(***************************************************************************)
(* send_notification_task (apps/notifications/tasks.py), one step per      *)
(* database access.  pc:                                                   *)
(*   idle -> queued -> send -> mark -> [incr -> retry ->                   *)
(*           hget -> hmark -> [hincr -> hretry]] -> idle                   *)
(* The exception raised by self.retry inside the try block is caught by    *)
(* the task's own `except Exception`, which is the h* part.                *)
(***************************************************************************)
\* task executions begun so far: one per send made, plus the running tasks
\* that have not reached their send
Started ==
    Len(log) + Cardinality({w \in Workers : pc[w] \in {"queued", "send"}})

\* a worker without a task holds no request and no objects
NoObject ==
    [status |-> "none", retry_count |-> 0, max_retries |-> 0, channel |-> "none",
     sent_at |-> FALSE, delivered_at |-> FALSE, error_message |-> ""]

\* the task returns (or its exception leaves it): the worker is free again
Finish(w) ==
    /\ pc' = [pc EXCEPT ![w] = "idle"]
    /\ loc' = [loc EXCEPT ![w] = NoObject]
    /\ req' = [req EXCEPT ![w] = 0]
    /\ seen' = [seen EXCEPT ![w] = "none"]
    /\ success' = [success EXCEPT ![w] = FALSE]

\* a worker takes a task from the broker; Notification.objects.get
TaskStart(w, limit) ==
    /\ pc[w] = "idle"
    /\ Started < limit
    /\ \E r \in 0..TaskMaxRetries :
        /\ queue[r] > 0
        /\ queue' = [queue EXCEPT ![r] = @ - 1]
        /\ req' = [req EXCEPT ![w] = r]
    /\ loc' = [loc EXCEPT ![w] = db]
    /\ seen' = [seen EXCEPT ![w] = db.status]
    /\ pc' = [pc EXCEPT ![w] = "queued"]
    /\ UNCHANGED <<db, log, success, netCalls, chanFails, direct, breakers, life>>
    /\ UNCHANGED <<cbVars, appVars>>

\* notification.status = 'queued'; save(update_fields=['status', ...])
TaskSetQueued(w) ==
    /\ pc[w] = "queued"
    /\ LET n == [loc[w] EXCEPT !.status = "queued"] IN
        /\ loc' = [loc EXCEPT ![w] = n]
        /\ db' = SaveStatus(db, n)
    /\ pc' = [pc EXCEPT ![w] = "send"]
    /\ UNCHANGED <<queue, req, seen, log, success, netCalls, chanFails, direct, breakers, life>>
    /\ UNCHANGED <<cbVars, appVars>>

\* service.send_notification: create_channel builds a new channel object,
\* whose __init__ builds a new CircuitBreaker; channel.send goes through
\* that breaker; one NotificationLog row is written.
TaskSend(w) ==
    /\ pc[w] = "send"
    /\ \E outcome \in OutcomesOf(loc[w].channel) :
        LET r == ServiceSend(loc[w], outcome) IN
            /\ success' = [success EXCEPT ![w] = r.success]
            /\ log' = Append(log, r.row)
            /\ netCalls' = netCalls + (IF r.network THEN 1 ELSE 0)
            /\ chanFails' = IF r.network /\ outcome = "raise"
                            THEN chanFails + 1 ELSE 0
            /\ breakers' = RecordBreaker(breakers, loc[w].channel, r.cb)
    /\ pc' = [pc EXCEPT ![w] = "mark"]
    /\ UNCHANGED <<db, queue, loc, req, seen, direct, life>>
    /\ UNCHANGED <<cbVars, appVars>>

\* if success: notification.mark_as_sent(); return
TaskMarkSent(w) ==
    /\ pc[w] = "mark"
    /\ success[w]
    /\ db' = SaveSent(db, MarkAsSent(loc[w]))
    /\ Finish(w)
    /\ UNCHANGED <<queue, log, netCalls, chanFails, direct, breakers, life>>
    /\ UNCHANGED <<cbVars, appVars>>

\* else: notification.mark_as_failed(...); if notification.can_retry(): ...
TaskMarkFailed(w) ==
    /\ pc[w] = "mark"
    /\ ~success[w]
    /\ LET n == MarkAsFailed(loc[w], "Failed to send notification") IN
        /\ db' = SaveFailed(db, n)
        /\ IF CanRetry(n)
           THEN /\ loc' = [loc EXCEPT ![w] = n]
                /\ pc' = [pc EXCEPT ![w] = "incr"]
                /\ UNCHANGED <<req, seen, success>>
           ELSE Finish(w)
    /\ UNCHANGED <<queue, log, netCalls, chanFails, direct, breakers, life>>
    /\ UNCHANGED <<cbVars, appVars>>

\* notification.increment_retry()
TaskIncrementRetry(w) ==
    /\ pc[w] = "incr"
    /\ LET n == IncrementRetry(loc[w]) IN
        /\ loc' = [loc EXCEPT ![w] = n]
        /\ db' = SaveRetry(db, n)
    /\ pc' = [pc EXCEPT ![w] = "retry"]
    /\ UNCHANGED <<queue, req, seen, log, success, netCalls, chanFails, direct, breakers, life>>
    /\ UNCHANGED <<cbVars, appVars>>

\* countdown = 60 * (2 ** notification.retry_count), n being the task's
\* object after increment_retry
Countdown(n) == BackoffBase * 2 ^ n.retry_count

\* history of self.retry(countdown=c) by a task whose request.retries is r:
\* the countdown of the retry sent to the broker, the object's retry_count
\* it was computed for, and the countdown of the retry sent before it (0:
\* none); nothing is recorded when no retry is sent
RetryRecord(h, n, c, r) ==
    IF r + 1 > TaskMaxRetries THEN h
    ELSE [op |-> "retry", countdown |-> c, retry_count |-> n.retry_count,
          previous |-> IF h.op = "retry" THEN h.countdown ELSE 0]

\* raise self.retry(countdown=...), inside the try block
TaskRetry(w) ==
    /\ pc[w] = "retry"
    /\ queue' = SelfRetry(queue, req[w])
    /\ ret' = RetryRecord(ret, loc[w], Countdown(loc[w]), req[w])
    /\ pc' = [pc EXCEPT ![w] = "hget"]
    /\ UNCHANGED <<db, loc, req, seen, log, success, netCalls, chanFails, direct, breakers, life>>
    /\ UNCHANGED <<cbVars, store, logTable, enq, registry, order>>

\* except Exception: notification = Notification.objects.get(id=...)
HandlerGet(w) ==
    /\ pc[w] = "hget"
    /\ loc' = [loc EXCEPT ![w] = db]
    /\ pc' = [pc EXCEPT ![w] = "hmark"]
    /\ UNCHANGED <<db, queue, req, seen, log, success, netCalls, chanFails, direct, breakers, life>>
    /\ UNCHANGED <<cbVars, appVars>>

\* notification.mark_as_failed(str(exc)); if notification.can_retry(): ...
\* exc is the exception self.retry raised; "Retry" stands for its text
HandlerMarkFailed(w) ==
    /\ pc[w] = "hmark"
    /\ LET n == MarkAsFailed(loc[w], "Retry") IN
        /\ db' = SaveFailed(db, n)
        /\ IF CanRetry(n)
           THEN /\ loc' = [loc EXCEPT ![w] = n]
                /\ pc' = [pc EXCEPT ![w] = "hincr"]
                /\ UNCHANGED <<req, seen, success>>
           ELSE Finish(w)
    /\ UNCHANGED <<queue, log, netCalls, chanFails, direct, breakers, life>>
    /\ UNCHANGED <<cbVars, appVars>>

\* notification.increment_retry(), in the handler
HandlerIncrementRetry(w) ==
    /\ pc[w] = "hincr"
    /\ LET n == IncrementRetry(loc[w]) IN
        /\ loc' = [loc EXCEPT ![w] = n]
        /\ db' = SaveRetry(db, n)
    /\ pc' = [pc EXCEPT ![w] = "hretry"]
    /\ UNCHANGED <<queue, req, seen, log, success, netCalls, chanFails, direct, breakers, life>>
    /\ UNCHANGED <<cbVars, appVars>>

\* raise self.retry(exc=exc, countdown=...), in the handler: leaves the task
HandlerRetry(w) ==
    /\ pc[w] = "hretry"
    /\ queue' = SelfRetry(queue, req[w])
    /\ ret' = RetryRecord(ret, loc[w], Countdown(loc[w]), req[w])
    /\ Finish(w)
    /\ UNCHANGED <<db, log, netCalls, chanFails, direct, breakers, life>>
    /\ UNCHANGED <<cbVars, store, logTable, enq, registry, order>>

(***************************************************************************)
(* The other places that queue a send task for the notification.           *)
(***************************************************************************)
\* process_scheduled_notifications: pending and due -> delay
ScheduledSweep ==
    /\ db.status = "pending"
    /\ QueueLen(queue) < MaxQueue
    /\ queue' = Delay(queue)
    /\ UNCHANGED <<db, pc, loc, req, seen, log, success, netCalls, chanFails, direct, breakers, life>>
    /\ UNCHANGED <<cbVars, appVars>>

\* retry_failed_notifications: failed with retry_count < max_retries -> delay
RetrySweep ==
    /\ db.status = "failed" /\ db.retry_count < db.max_retries
    /\ CanRetry(db)
    /\ QueueLen(queue) < MaxQueue
    /\ queue' = Delay(queue)
    /\ UNCHANGED <<db, pc, loc, req, seen, log, success, netCalls, chanFails, direct, breakers, life>>
    /\ UNCHANGED <<cbVars, appVars>>

\* views.retry_notification: can_retry -> delay
RetryRequest ==
    /\ CanRetry(db)
    /\ QueueLen(queue) < MaxQueue
    /\ queue' = Delay(queue)
    /\ UNCHANGED <<db, pc, loc, req, seen, log, success, netCalls, chanFails, direct, breakers, life>>
    /\ UNCHANGED <<cbVars, appVars>>

(***************************************************************************)
(* SpecLife: the lifecycle methods of Notification called directly on an   *)
(* object.  None of them inspects the object before writing it, and none   *)
(* raises.  life.post is the object (saved right away, so also its row).   *)
(***************************************************************************)
\* Notification.STATUS_CHOICES
Statuses == {"pending", "queued", "sent", "delivered", "failed", "retrying"}

LifeStep(op, n) ==
    [op |-> op, pre |-> life.post, post |-> n, raised |-> FALSE,
     result |-> FALSE]

LifeUnchanged ==
    /\ UNCHANGED <<db, queue, pc, loc, req, seen, log, success, netCalls,
                   chanFails, direct, breakers>>
    /\ UNCHANGED <<cbVars, appVars>>

CallMarkAsSent ==
    /\ life' = LifeStep("mark_as_sent", MarkAsSent(life.post))
    /\ LifeUnchanged

CallMarkAsDelivered ==
    /\ life' = LifeStep("mark_as_delivered", MarkAsDelivered(life.post))
    /\ LifeUnchanged

CallMarkAsFailed ==
    /\ \E msg \in {"", "Failed to send notification"} :
           life' = LifeStep("mark_as_failed", MarkAsFailed(life.post, msg))
    /\ LifeUnchanged

CallIncrementRetry ==
    /\ life.post.retry_count < MaxLifeRetry
    /\ life' = LifeStep("increment_retry", IncrementRetry(life.post))
    /\ LifeUnchanged

\* can_retry(): a read of the object, nothing assigned or saved
CallCanRetry ==
    /\ life' = [LifeStep("can_retry", life.post) EXCEPT
                  !.result = CanRetry(life.post)]
    /\ LifeUnchanged

(***************************************************************************)
(* The user's mark-as-read views (apps/notifications/user_views.py).       *)
(***************************************************************************)
\* NotificationUserMarkReadView.patch: the notification is fetched, its
\* status set to 'delivered' and the object saved, whatever its status was;
\* neither timestamp is touched
MarkRead ==
    /\ db' = [db EXCEPT !.status = "delivered"]
    /\ UNCHANGED <<queue, pc, loc, req, seen, log, success, netCalls, chanFails,
                   direct, breakers, life>>
    /\ UNCHANGED <<cbVars, appVars>>

\* NotificationUserMarkAllReadView.patch:
\* filter(status='pending').update(status='delivered')
MarkAllRead ==
    /\ db.status = "pending"
    /\ db' = [db EXCEPT !.status = "delivered"]
    /\ UNCHANGED <<queue, pc, loc, req, seen, log, success, netCalls, chanFails,
                   direct, breakers, life>>
    /\ UNCHANGED <<cbVars, appVars>>

(***************************************************************************)
(* NotificationAdminSendView.post (apps/notifications/admin_views.py):     *)
(* create_notification, then service.send_notification on the new          *)
(* notification, synchronously; the view calls no mark_as_* method.        *)
(***************************************************************************)
DirectSend ==
    /\ Len(direct) < MaxDirect
    /\ \E ch \in RegisteredChannels : \E outcome \in OutcomesOf(ch) :
        LET n == NewNotification(ch)
            r == ServiceSend(n, outcome)
        IN  /\ direct' = Append(direct,
                             [notification |-> n,
                              logs |-> <<r.row>>,
                              outcome |-> outcome,
                              returned |-> r.success,
                              before |-> breakers])
            /\ netCalls' = netCalls + (IF r.network THEN 1 ELSE 0)
            /\ chanFails' = IF r.network /\ outcome = "raise"
                            THEN chanFails + 1 ELSE 0
            /\ breakers' = RecordBreaker(breakers, ch, r.cb)
    /\ UNCHANGED <<db, queue, pc, loc, req, seen, log, success, life>>
    /\ UNCHANGED <<cbVars, appVars>>

\* channel names handed to the factory, and the channel classes
ChannelNames == {"telegram", "email", "Email", "sms"}
ChannelClasses == {"TelegramChannel", "EmailChannel"}

\* str.lower() on the channel names
Lower(name) == IF name = "Email" THEN "email" ELSE name

\* variant: a registration that keeps the class already stored under the key
RegisterChannelKeepFirst(reg, name, class) == reg @@ (Lower(name) :> class)

\* register_channel: _channels[channel_type.lower()] = channel_class
RegisterChannel(reg, name, class) == (Lower(name) :> class) @@ reg

\* create_channel: the class stored under channel_type.lower(), instantiated,
\* or None
ResolveChannel(reg, name) ==
    IF Lower(name) \in DOMAIN reg THEN reg[Lower(name)] ELSE "None"

\* the factory's registry once register_channels has run (AppConfig.ready)
BootRegistry ==
    RegisterChannel(RegisterChannel(<<>>, "telegram", "TelegramChannel"),
                    "email", "EmailChannel")

\* no service, view or sweep call has been made
NoRet == [op |-> "none"]

\* no order is worked on
NoOrder == [obj |-> <<>>, row |-> <<>>, tasks |-> <<>>]

\* an empty notifications table, nothing queued
StoreInit ==
    /\ store = <<>>
    /\ logTable = <<>>
    /\ enq = <<>>
    /\ ret = NoRet
    /\ order = NoOrder

\* no caller has arrived at a breaker yet
CallersInit ==
    /\ now = 0
    /\ cpc = [c \in Callers |-> "idle"]
    /\ admittedIn = [c \in Callers |-> "none"]
    /\ consecRaises = 0
    /\ lastOp = NoOp

\* SpecCB: a breaker constructed with any threshold and timeout in bounds
CBInit ==
    /\ \E th \in 1..MaxThreshold, to \in 1..MaxTimeout :
           cb = CircuitBreakerInit(th, to)
    /\ CallersInit

\* no lifecycle method has been called
NoLife ==
    [op |-> "none", pre |-> NoObject, post |-> NoObject, raised |-> FALSE,
     result |-> FALSE]

\* the notification has been created and its send task queued once; no
\* worker has started
WorkersIdle ==
    /\ queue = [r \in 0..TaskMaxRetries |-> IF r = 0 THEN 1 ELSE 0]
    /\ pc = [w \in Workers |-> "idle"]
    /\ loc = [w \in Workers |-> NoObject]
    /\ req = [w \in Workers |-> 0]
    /\ seen = [w \in Workers |-> "none"]
    /\ log = <<>>
    /\ success = [w \in Workers |-> FALSE]
    /\ netCalls = 0
    /\ chanFails = 0
    /\ direct = <<>>
    /\ breakers = [ch \in RegisteredChannels |-> <<>>]

\* ... and the notifications table is empty
WorkersInit ==
    /\ WorkersIdle
    /\ StoreInit

\* ... and no lifecycle method has been called from outside the task
TaskRest ==
    /\ WorkersInit
    /\ life = NoLife
    /\ registry = BootRegistry

TaskInit ==
    /\ db = NewNotification("telegram")
    /\ TaskRest

InitCB == CBInit /\ TaskInit

\* Spec, SpecOnce: a notification of a template of any channel name; the
\* breaker of SpecCB is out of play (every send constructs its own)
Init ==
    /\ cb = CircuitBreakerInit(ChannelFailureThreshold, ChannelRecoveryTimeout)
    /\ CallersInit
    /\ \E ch \in RegisteredChannels \cup {UnregisteredChannel} :
           db = NewNotification(ch)
    /\ TaskRest

\* SpecDirect, SpecRead: a telegram notification; nothing has been sent yet
InitTelegram ==
    /\ cb = CircuitBreakerInit(ChannelFailureThreshold, ChannelRecoveryTimeout)
    /\ CallersInit
    /\ TaskInit

\* SpecLife: a notification in any status, with any retry_count up to
\* max_retries, sent_at stamped or not
InitLife ==
    /\ cb = CircuitBreakerInit(ChannelFailureThreshold, ChannelRecoveryTimeout)
    /\ CallersInit
    /\ db = NewNotification("telegram")
    /\ WorkersInit
    /\ registry = BootRegistry
    /\ \E st \in Statuses, rc \in 0..DefaultMaxRetries, sa \in BOOLEAN :
           life = [NoLife EXCEPT
                     !.post = [NewNotification("telegram") EXCEPT
                                 !.status = st, !.retry_count = rc,
                                 !.sent_at = sa]]

CBNext ==
    \/ \E c \in Callers : SendEnter(c)
    \/ \E c \in Callers : FuncReturn(c)
    \/ \E c \in Callers : FuncRaise(c)
    \/ Tick

SpecCB == InitCB /\ [][CBNext]_vars

\* the steps of the send task on the workers
TaskNext ==
    \/ \E w \in Workers : TaskStart(w, MaxStarted)
    \/ \E w \in Workers : TaskSetQueued(w)
    \/ \E w \in Workers : TaskSend(w)
    \/ \E w \in Workers : TaskMarkSent(w)
    \/ \E w \in Workers : TaskMarkFailed(w)
    \/ \E w \in Workers : TaskIncrementRetry(w)
    \/ \E w \in Workers : TaskRetry(w)
    \/ \E w \in Workers : HandlerGet(w)
    \/ \E w \in Workers : HandlerMarkFailed(w)
    \/ \E w \in Workers : HandlerIncrementRetry(w)
    \/ \E w \in Workers : HandlerRetry(w)

\* the same steps for a notification enqueued once
OnceNext ==
    \/ \E w \in Workers : TaskStart(w, MaxStartedOnce)
    \/ \E w \in Workers : TaskSetQueued(w)
    \/ \E w \in Workers : TaskSend(w)
    \/ \E w \in Workers : TaskMarkSent(w)
    \/ \E w \in Workers : TaskMarkFailed(w)
    \/ \E w \in Workers : TaskIncrementRetry(w)
    \/ \E w \in Workers : TaskRetry(w)
    \/ \E w \in Workers : HandlerGet(w)
    \/ \E w \in Workers : HandlerMarkFailed(w)
    \/ \E w \in Workers : HandlerIncrementRetry(w)
    \/ \E w \in Workers : HandlerRetry(w)

Next ==
    \/ TaskNext
    \/ ScheduledSweep
    \/ RetrySweep
    \/ RetryRequest

\* the task layer with its sweeps and the retry endpoint
Spec == Init /\ [][Next]_vars

\* a notification enqueued once: the send task and its own retries only
SpecOnce == Init /\ [][OnceNext]_vars

DirectNext ==
    \/ DirectSend
    \/ Tick

\* sends made one after the other through the admin send view
LifeNext ==
    \/ CallMarkAsSent
    \/ CallMarkAsDelivered
    \/ CallMarkAsFailed
    \/ CallIncrementRetry
    \/ CallCanRetry

\* the lifecycle methods called in any order on one object
SpecLife == InitLife /\ [][LifeNext]_vars

SpecDirect == InitTelegram /\ [][DirectNext]_vars

ReadNext ==
    \/ TaskNext
    \/ MarkRead
    \/ MarkAllRead

\* the send task next to the user's mark-as-read views
SpecRead == InitTelegram /\ [][ReadNext]_vars

(***************************************************************************)
(* Circuit breaker claims, checked under SpecCB.                           *)
(***************************************************************************)
\* the step just taken was a call arriving at the breaker's gate
AtGate == lastOp.kind \in {"admit", "reject"}

\* the call that just arrived was turned away: the wrapped function was not
\* entered and Channel.send returned False
Rejected ==
    /\ lastOp.kind = "reject"
    /\ lastOp.invoked = 0
    /\ cpc[lastOp.caller] = "idle"
    /\ lastOp.result = FALSE

\* C5: with failureThreshold N >= 1, right after the N-th consecutive failing
\* call (no normal return in between) the breaker is open, and a call that
\* arrives after those failures while recoveryTimeout has not elapsed since
\* the last failure is rejected without entering the wrapped function.
C5_TripsThenRejects ==
    /\ (lastOp.kind = "raise" /\ consecRaises >= cb.failure_threshold)
           => cb.state = "open"
    /\ (AtGate /\ consecRaises >= lastOp.pre.failure_threshold
               /\ ~ShouldAttemptReset(lastOp.pre, now))
           => (Rejected /\ cb.state = "open")

\* C5 witness: the call after exactly 3 consecutive failures was rejected
C5_Witness ==
    /\ Rejected
    /\ cb.failure_threshold = ChannelFailureThreshold
    /\ consecRaises = ChannelFailureThreshold
    /\ cb.state = "open"

\* C6: a call arriving at an open breaker is let through exactly when
\* recoveryTimeout has elapsed since the last failure; it then moves the
\* breaker to half_open and enters the wrapped function once.  A normal
\* return in half_open closes the breaker with failure_count 0; a failure in
\* half_open opens it again with a fresh last_failure_time, so calls are
\* rejected until another recoveryTimeout has elapsed.
C6_HalfOpenTrial ==
    /\ (AtGate /\ lastOp.pre.state = "open")
           => IF ShouldAttemptReset(lastOp.pre, now)
              THEN /\ lastOp.kind = "admit"
                   /\ lastOp.invoked = 1
                   /\ cb.state = "half_open"
                   /\ cpc[lastOp.caller] = "infunc"
              ELSE Rejected
    /\ (lastOp.kind = "return" /\ lastOp.pre.state = "half_open")
           => (cb.state = "closed" /\ cb.failure_count = 0)
    /\ (lastOp.kind = "raise" /\ lastOp.pre.state = "half_open")
           => (/\ cb.state = "open"
               /\ cb.last_failure_time = <<now>>
               /\ ~ShouldAttemptReset(cb, now))

\* C6 witness: a trial call made after the timeout returned and closed the
\* breaker
C6_Witness ==
    /\ lastOp.kind = "return"
    /\ lastOp.pre.state = "half_open"
    /\ admittedIn[lastOp.caller] = "half_open"
    /\ cb.state = "closed"
    /\ cb.failure_count = 0

\* calls inside the wrapped function that were let through as trials
TrialsInFlight ==
    {c \in Callers : cpc[c] = "infunc" /\ admittedIn[c] = "half_open"}

\* C7: with several callers on one breaker, at most one trial call is in
\* flight while the breaker is half_open; the other callers are rejected.
C7_SingleTrialInFlight ==
    Cardinality(TrialsInFlight) <= 1

\* C9: every failed send, whether the wrapped function raises or returns a
\* remote failure (False), adds one to failure_count and never resets it.
C9_EveryFailureCounts ==
    (lastOp.kind \in {"return", "raise"} /\ lastOp.outcome # "ok")
        => cb.failure_count = lastOp.pre.failure_count + 1

\* C10: a call rejected by the open breaker leaves failure_count,
\* last_failure_time and state as they were, and Channel.send returns False
\* for it exactly as it does for a call whose wrapped function raised.
C10_RejectionNotCounted ==
    /\ lastOp.kind = "reject"
           => (/\ cb = lastOp.pre
               /\ lastOp.pre.state = "open"
               /\ lastOp.invoked = 0
               /\ lastOp.result = FALSE)
    /\ lastOp.kind = "raise" => lastOp.result = FALSE

\* C10 witness: a rejection by a breaker that stayed open with its count
C10_Witness ==
    /\ lastOp.kind = "reject"
    /\ cb.state = "open"
    /\ cb.failure_count = lastOp.pre.failure_count
    /\ cb.failure_count >= cb.failure_threshold

(***************************************************************************)
(* Task layer claims.                                                      *)
(***************************************************************************)
\* the task running on w has made its channel send and written its log row
HasSent(w) ==
    pc[w] \in {"mark", "incr", "retry", "hget", "hmark", "hincr", "hretry"}

\* C1: two send tasks for the same notification that run at the same time
\* never both invoke the channel and write a log row: of two overlapping
\* tasks at most one has sent.  (Spec)
C1_NoConcurrentDoubleSend ==
    \A w1, w2 \in Workers : (w1 # w2 /\ HasSent(w1)) => ~HasSent(w2)

\* C2: a send task that finds the notification already sent does not go on
\* to the channel and leaves the row in status sent.  (Spec)
C2_SentIsNotResent ==
    \A w \in Workers :
        (pc[w] # "idle" /\ seen[w] = "sent")
            => (db.status = "sent" /\ pc[w] # "send" /\ ~HasSent(w))

FailedRows == {i \in 1..Len(log) : log[i].status = "failed"}

\* failed attempts whose task has finished
FailedProcessed ==
    Cardinality(FailedRows) - Cardinality({w \in Workers : HasSent(w)})

\* C4: when every attempt fails, from the moment max_retries failed attempts
\* have been processed by the send task the notification is failed, cannot
\* be retried, no retry of the task is queued, and this stays so.  (SpecOnce)
C4_ExhaustedAfterMaxRetries ==
    (/\ \A i \in 1..Len(log) : log[i].status = "failed"
     /\ FailedProcessed >= db.max_retries)
        => (/\ db.status = "failed"
            /\ ~CanRetry(db)
            /\ QueueLen(queue) = 0)

\* C8: breaker state is kept per channel across sends: a Dispatch Service
\* send made after 3 consecutive channel errors on the channel, before
\* recoveryTimeout has elapsed, makes no network attempt.  (SpecDirect)
C8_BreakerSharedAcrossSends ==
    [][(/\ Len(direct') = Len(direct) + 1
        /\ chanFails >= ChannelFailureThreshold
        /\ now < ChannelRecoveryTimeout)
            => netCalls' = netCalls]_vars

(***************************************************************************)
(* Channel isolation, lifecycle and dispatch claims.                       *)
(***************************************************************************)
\* the send just made through the admin send view, and its channel
LastDirect == direct[Len(direct)]

\* C11: a send on one channel, failing or succeeding, leaves the breaker
\* state and failure_count of every other channel as they were.  (SpecDirect)
C11_OtherChannelUntouched ==
    [][Len(direct') = Len(direct) + 1
         => \A d \in RegisteredChannels :
                d # direct'[Len(direct')].notification.channel
                    => breakers'[d] = breakers[d]]_vars

\* C11 witness: a telegram send whose network call raised was made while an
\* email breaker existed, and that breaker is still closed with count 0
C11_Witness ==
    /\ Len(direct) >= 2
    /\ LastDirect.notification.channel = "telegram"
    /\ LastDirect.outcome = "raise"
    /\ breakers["telegram"] # <<>>
    /\ breakers["telegram"][1].failure_count = 1
    /\ LastDirect.before["email"] # <<>>
    /\ breakers["email"] = LastDirect.before["email"]
    /\ breakers["email"][1].failure_count = 0

\* C12: once the status is delivered the notification is frozen: no step
\* changes any of its fields and no further log row is written for it.
\* (SpecRead)
C12_DeliveredIsFrozen ==
    [][db.status = "delivered" => (db' = db /\ log' = log)]_vars

\* C13: a notification that is failed with retry_count = max_retries is
\* terminal: a send task that starts on it (here an already scheduled retry)
\* neither changes its status nor goes on to a channel send.  (SpecOnce)
C13_ExhaustedIsTerminal ==
    \A w \in Workers :
        (/\ pc[w] # "idle"
         /\ seen[w] = "failed"
         /\ pc[w] \in {"queued", "send"}
         /\ loc[w].retry_count = loc[w].max_retries)
            => (db.status = "failed" /\ pc[w] # "send")

\* the lifecycle call just made was not allowed from the status the object
\* had: mark_as_delivered needs sent, mark_as_sent needs queued,
\* increment_retry needs failed, mark_as_failed needs a non-terminal status
InvalidCall ==
    \/ life.op = "mark_as_delivered" /\ life.pre.status # "sent"
    \/ life.op = "mark_as_sent" /\ life.pre.status # "queued"
    \/ life.op = "increment_retry" /\ life.pre.status # "failed"
    \/ /\ life.op = "mark_as_failed"
       /\ \/ life.pre.status = "delivered"
          \/ /\ life.pre.status = "failed"
             /\ life.pre.retry_count = life.pre.max_retries

\* C14: a lifecycle method called from a status it is not allowed in fails
\* with an error and leaves every field of the notification as it was.
\* (SpecLife)
C14_InvalidTransitionRejected ==
    InvalidCall => (life.raised /\ life.post = life.pre)

\* the status changes the lifecycle allows
LifecycleEdges ==
    {<<"pending", "queued">>, <<"retrying", "queued">>, <<"queued", "sent">>,
     <<"sent", "delivered">>, <<"pending", "failed">>, <<"queued", "failed">>,
     <<"sent", "failed">>, <<"failed", "retrying">>}

\* C15: every change of the row's status made by the task layer follows a
\* lifecycle edge.  (Spec)
C15_OnlyLifecycleEdges ==
    [][db'.status # db.status
         => <<db.status, db'.status>> \in LifecycleEdges]_vars

\* C16: sent_at is set exactly when the status has reached sent: a row whose
\* status is sent or delivered has sent_at, and sent_at is only ever stamped
\* (never cleared) by a step that makes the status sent.  (SpecRead)
C16_SentAtIffReachedSent ==
    /\ [](db.status \in {"sent", "delivered"} => db.sent_at)
    /\ [][db'.sent_at # db.sent_at
            => (db'.sent_at /\ db'.status = "sent")]_vars

\* C17: the log rows of the notification, in creation order, have
\* attempt_number starting at 1 and strictly increasing, so no two rows
\* share an attempt_number.  (Spec)
C17_AttemptNumbersIncrease ==
    /\ Len(log) >= 1 => log[1].attempt_number = 1
    /\ \A i, j \in 1..Len(log) :
           i < j => log[i].attempt_number < log[j].attempt_number

\* C18: when the channel send succeeds, send_notification has written exactly
\* one log row (attempt_number = retry_count + 1, status sent), has made the
\* notification sent with sent_at set, and has returned True, also when it
\* is called directly rather than by the send task.  (SpecDirect)
C18_SuccessMarksSent ==
    \A i \in 1..Len(direct) :
        direct[i].outcome = "ok"
            => (/\ direct[i].returned
                /\ Len(direct[i].logs) = 1
                /\ direct[i].logs[1].status = "sent"
                /\ direct[i].logs[1].attempt_number
                       = direct[i].notification.retry_count + 1
                /\ direct[i].notification.status = "sent"
                /\ direct[i].notification.sent_at)

\* C19: when the channel send fails, send_notification returns False, has
\* written exactly one log row with status failed that carries the error,
\* and has left the notification failed with error_message set.
\* (SpecDirect)
C19_FailureMarksFailed ==
    \A i \in 1..Len(direct) :
        direct[i].outcome \in {"false", "raise"}
            => (/\ ~direct[i].returned
                /\ Len(direct[i].logs) = 1
                /\ direct[i].logs[1].status = "failed"
                /\ direct[i].logs[1].error_message # ""
                /\ direct[i].notification.status = "failed"
                /\ direct[i].notification.error_message # "")

\* C20: a notification whose channel name cannot be resolved is not retried:
\* its retry_count stays 0 and no retry of the send task is ever queued or
\* run.  (SpecOnce)
C20_UnresolvedChannelNotRetried ==
    db.channel \notin RegisteredChannels
        => (/\ db.retry_count = 0
            /\ \A r \in 1..TaskMaxRetries : queue[r] = 0
            /\ \A w \in Workers : req[w] = 0)

(***************************************************************************)
(* The notifications table: NotificationService.create_notification and    *)
(* send_bulk_notifications (apps/notifications/services.py).               *)
(* A string is the sequence of its characters; an optional value is <<>>   *)
(* (None) or <<v>>.                                                        *)
(***************************************************************************)
\* NotificationTemplate rows: name -> channel, is_active
Templates ==
    [order_tg   |-> [channel |-> "telegram", is_active |-> TRUE],
     order_mail |-> [channel |-> "email",    is_active |-> TRUE],
     retired    |-> [channel |-> "email",    is_active |-> FALSE],
     promo_sms  |-> [channel |-> "sms",      is_active |-> TRUE]]

\* template names a caller may pass; "missing" names no row
TemplateNames == DOMAIN Templates \cup {"missing"}

Letters == {"a", "b", "c", "o"}
Digits == {"1", "2"}

\* recipient=None (a bulk entry without the key)
NoneRecipient == <<"None">>

\* all characters of s lie in set
AllIn(s, set) == \A i \in 1..Len(s) : s[i] \in set

\* TelegramChannel.validate_recipient; default_chat_id is the setting the
\* channel object read when it was constructed
ValidateTelegram(recipient, default_chat_id) ==
    IF recipient = NoneRecipient \/ recipient = <<>>
    THEN IF default_chat_id THEN "true" ELSE "false"
    ELSE IF \/ recipient[1] = "@" /\ Len(recipient) > 1
            \/ AllIn(recipient, Digits)
            \/ recipient[1] = "-"
         THEN "true" ELSE "false"

\* re.match(r'^[a-zA-Z0-9._%+-]+@[a-zA-Z0-9.-]+\.[a-zA-Z]{2,}$', s):
\* i is the place of the @, j of the dot before the final letters; $ also
\* matches before one trailing newline
EmailPattern(s) ==
    LET body == IF Len(s) > 0 /\ s[Len(s)] = "\n"
                THEN SubSeq(s, 1, Len(s) - 1) ELSE s
    IN  \E i \in 1..Len(body) : \E j \in (i + 1)..Len(body) :
            /\ body[i] = "@"
            /\ body[j] = "."
            /\ i > 1
            /\ AllIn(SubSeq(body, 1, i - 1),
                     Letters \cup Digits \cup {".", "_", "%", "+", "-"})
            /\ j > i + 1
            /\ AllIn(SubSeq(body, i + 1, j - 1),
                     Letters \cup Digits \cup {".", "-"})
            /\ Len(body) - j >= 2
            /\ AllIn(SubSeq(body, j + 1, Len(body)), Letters)

\* EmailChannel.validate_recipient: re.match on None raises TypeError
ValidateEmail(recipient) ==
    IF recipient = NoneRecipient THEN "raise"
    ELSE IF EmailPattern(recipient) THEN "true" ELSE "false"

\* channel.validate_recipient(recipient) of an instance of class
ValidateRecipient(class, recipient, default_chat_id) ==
    IF class = "TelegramChannel"
    THEN ValidateTelegram(recipient, default_chat_id)
    ELSE ValidateEmail(recipient)

\* Notification.PRIORITY_CHOICES
Priorities == {"low", "normal", "high", "urgent"}

\* variant: a row whose scheduled_at is always the creation time
NewRowNow(tname, recipient, priority, scheduled_at, t) ==
    [template |-> tname, recipient |-> recipient, priority |-> priority,
     scheduled_at |-> t,
     obj |-> NewNotification(Templates[tname].channel),
     delivered_on |-> <<>>, live |-> TRUE]

\* the row Notification.objects.create(...) inserts: scheduled_at is
\* `scheduled_at or timezone.now()`, the other columns take their defaults
\* (obj holds the columns of NewNotification); live: not deleted
NewRow(tname, recipient, priority, scheduled_at, t) ==
    [template |-> tname, recipient |-> recipient, priority |-> priority,
     scheduled_at |-> IF scheduled_at = <<>> THEN t ELSE scheduled_at[1],
     obj |-> NewNotification(Templates[tname].channel),
     delivered_on |-> <<>>, live |-> TRUE]

\* variant: the row is inserted before the channel is resolved and the
\* recipient validated
CreateNotificationInsertFirst(st, reg, tname, recipient, priority, scheduled_at, t, dflt) ==
    IF tname \notin DOMAIN Templates \/ ~Templates[tname].is_active
    THEN [store |-> st, result |-> <<>>, raised |-> FALSE]
    ELSE LET class == ResolveChannel(reg, Templates[tname].channel)
             inserted == Append(st, NewRow(tname, recipient, priority,
                                           scheduled_at, t))
         IN  IF class = "None"
             THEN [store |-> inserted, result |-> <<>>, raised |-> FALSE]
             ELSE IF ValidateRecipient(class, recipient, dflt) = "true"
                  THEN [store |-> inserted, result |-> <<Len(st) + 1>>,
                        raised |-> FALSE]
                  ELSE [store |-> inserted, result |-> <<>>, raised |-> FALSE]

\* create_notification on table st at time t: the table afterwards, the
\* value returned (<<>>: None, <<id>>: the new notification) and whether an
\* exception left the call.  The recipient column is NOT NULL, so creating
\* with recipient=None raises IntegrityError.
CreateNotification(st, reg, tname, recipient, priority, scheduled_at, t, dflt) ==
    LET none == [store |-> st, result |-> <<>>, raised |-> FALSE]
        exc == [store |-> st, result |-> <<>>, raised |-> TRUE]
    IN  IF tname \notin DOMAIN Templates \/ ~Templates[tname].is_active
        THEN none
        ELSE LET class == ResolveChannel(reg, Templates[tname].channel) IN
             IF class = "None" THEN none
             ELSE LET v == ValidateRecipient(class, recipient, dflt) IN
                  IF v = "raise" THEN exc
                  ELSE IF v = "false" THEN none
                  ELSE IF recipient = NoneRecipient THEN exc
                  ELSE [store |-> Append(st, NewRow(tname, recipient, priority,
                                                    scheduled_at, t)),
                        result |-> <<Len(st) + 1>>,
                        raised |-> FALSE]

\* send_bulk_notifications: create_notification for each entry in turn, the
\* notifications created collected in a list; an exception of any call
\* leaves the loop and the method (there is no try), after the rows of the
\* entries before it were inserted
RECURSIVE SendBulk(_, _, _, _, _, _, _, _)
SendBulk(st, reg, tname, entries, priority, t, dflt, acc) ==
    IF entries = <<>>
    THEN [store |-> st, result |-> acc, raised |-> FALSE]
    ELSE LET c == CreateNotification(st, reg, tname, Head(entries), priority,
                                     <<>>, t, dflt)
         IN  IF c.raised
             THEN [store |-> c.store, result |-> <<>>, raised |-> TRUE]
             ELSE SendBulk(c.store, reg, tname, Tail(entries), priority, t,
                           dflt, acc \o c.result)

\* history: which case of create_notification a call is.  "raises": the
\* validator raised instead of answering
TemplateCase(reg, tname) ==
    IF tname \notin DOMAIN Templates THEN "missing"
    ELSE IF ~Templates[tname].is_active THEN "inactive"
    ELSE IF Lower(Templates[tname].channel) \notin DOMAIN reg THEN "unresolved"
    ELSE "usable"

CreateCase(reg, tname, recipient, dflt) ==
    IF TemplateCase(reg, tname) # "usable" THEN TemplateCase(reg, tname)
    ELSE LET v == ValidateRecipient(reg[Lower(Templates[tname].channel)],
                                    recipient, dflt)
         IN  IF v = "false" THEN "rejected"
             ELSE IF v = "raise" THEN "raises"
             ELSE "accepted"

\* history: the recipients of the bulk entries that pass validation, in
\* input order; an entry without recipient or with an empty one does not pass
ValidEntries(reg, tname, entries, dflt) ==
    SelectSeq(entries,
              LAMBDA r : /\ r # NoneRecipient
                         /\ r # <<>>
                         /\ CreateCase(reg, tname, r, dflt) = "accepted")

\* what the rest of the table layer leaves alone
TableRest ==
    /\ UNCHANGED <<db, queue, pc, loc, req, seen, log, success, chanFails,
                   direct, breakers, life, registry>>
    /\ UNCHANGED <<cb, cpc, admittedIn, consecRaises, lastOp>>

TableUnchanged ==
    /\ TableRest
    /\ UNCHANGED order

\* service.create_notification(template_name, recipient, priority=...,
\* scheduled_at=...)
Create(tname, recipient, priority, scheduled_at, dflt) ==
    /\ LET c == CreateNotification(store, registry, tname, recipient, priority,
                                   scheduled_at, now, dflt)
       IN  /\ Len(c.store) <= MaxRows
           /\ store' = c.store
           /\ ret' = [op |-> "create",
                      case |-> CreateCase(registry, tname, recipient, dflt),
                      scheduled_at |-> scheduled_at, at |-> now,
                      result |-> c.result, raised |-> c.raised,
                      before |-> store, logsBefore |-> logTable,
                      netBefore |-> netCalls, enqBefore |-> enq]
    /\ UNCHANGED <<logTable, enq, netCalls, now>>
    /\ TableUnchanged

\* service.send_bulk_notifications(template_name, recipients, priority=...)
Bulk(tname, entries, priority, dflt) ==
    /\ LET b == SendBulk(store, registry, tname, entries, priority, now, dflt,
                         <<>>)
       IN  /\ Len(b.store) <= MaxRows
           /\ store' = b.store
           /\ ret' = [op |-> "bulk", template |-> tname,
                      case |-> TemplateCase(registry, tname),
                      n |-> Len(entries),
                      valid |-> ValidEntries(registry, tname, entries, dflt),
                      result |-> b.result, raised |-> b.raised,
                      before |-> store]
    /\ UNCHANGED <<logTable, enq, netCalls, now>>
    /\ TableUnchanged

\* time passes (timezone.now(), in days) to a later one of the instants the
\* model looks at
ClockAdvance(instants) ==
    /\ \E t \in instants : t > now /\ now' = t
    /\ UNCHANGED <<store, logTable, enq, ret, netCalls>>
    /\ TableUnchanged

(***************************************************************************)
(* SpecCreate: creation on its own.                                        *)
(***************************************************************************)
\* recipients passed to create_notification
Recipients ==
    {<<"@", "a">>, <<"a">>, <<>>,
     <<"a", "@", "b", ".", "c", "o">>, <<"a", "@", "b", ".", "c">>}

\* `recipient` of the entries of a bulk request (serializer: a list of 1 to
\* 100 dicts, no key required)
BulkRecipients == {<<"@", "a">>, <<"a">>, NoneRecipient}

\* template names of the bulk requests
BulkTemplates == {"order_tg", "order_mail", "missing"}

\* the recipient lists of a bulk request
BulkEntries ==
    UNION {[1..n -> BulkRecipients] : n \in 1..MaxBulk}

\* scheduled_at arguments: none, or a time after the creation
CreateSchedules == {<<>>, <<2>>}

\* the table layer starts with the process booted: channels registered, no
\* notification yet, nothing queued
InitTable ==
    /\ cb = CircuitBreakerInit(ChannelFailureThreshold, ChannelRecoveryTimeout)
    /\ CallersInit
    /\ db = NewNotification("telegram")
    /\ WorkersInit
    /\ life = NoLife
    /\ registry = BootRegistry

CreateNext ==
    \/ \E tname \in TemplateNames, recipient \in Recipients,
          scheduled_at \in CreateSchedules, dflt \in BOOLEAN :
           Create(tname, recipient, "normal", scheduled_at, dflt)
    \/ \E tname \in BulkTemplates, entries \in BulkEntries, dflt \in BOOLEAN :
           Bulk(tname, entries, "normal", dflt)

\* the calls are made at time 1
InitCreate ==
    /\ cb = CircuitBreakerInit(ChannelFailureThreshold, ChannelRecoveryTimeout)
    /\ now = 1
    /\ cpc = [c \in Callers |-> "idle"]
    /\ admittedIn = [c \in Callers |-> "none"]
    /\ consecRaises = 0
    /\ lastOp = NoOp
    /\ db = NewNotification("telegram")
    /\ WorkersInit
    /\ life = NoLife
    /\ registry = BootRegistry

SpecCreate == InitCreate /\ [][CreateNext]_vars

(***************************************************************************)
(* SpecSched: the send view, the scheduled sweep and the send task on the  *)
(* table.  A queued task is [id, retries]; a task runs in one step here.   *)
(***************************************************************************)
\* send_notification_task for the row `obj`, run from start to end with the
\* wrapped channel call doing `outcome`: the row afterwards, the log row
\* written, whether the network was reached, and how many times self.retry
\* was called (once in the try block, once more in the handler that catches
\* what the first call raised)
RunTaskOn(obj, outcome) ==
    LET n0 == [obj EXCEPT !.status = "queued"]
        d0 == SaveStatus(obj, n0)
        r  == ServiceSend(n0, outcome)
        n1 == MarkAsFailed(n0, "Failed to send notification")
        d1 == SaveFailed(d0, n1)
        d2 == SaveRetry(d1, IncrementRetry(n1))
        h1 == MarkAsFailed(d2, "Retry")
        d3 == SaveFailed(d2, h1)
        d4 == SaveRetry(d3, IncrementRetry(h1))
    IN  IF r.success
        THEN [obj |-> SaveSent(d0, MarkAsSent(n0)), row |-> r.row,
              network |-> r.network, retries |-> 0]
        ELSE IF ~CanRetry(n1)
        THEN [obj |-> d1, row |-> r.row, network |-> r.network, retries |-> 0]
        ELSE IF ~CanRetry(h1)
        THEN [obj |-> d3, row |-> r.row, network |-> r.network, retries |-> 1]
        ELSE [obj |-> d4, row |-> r.row, network |-> r.network, retries |-> 2]

\* the messages k calls of self.retry put on the broker for a task whose
\* request.retries is r: none once r + 1 exceeds the task's max_retries
RetryMessages(id, r, k) ==
    IF r + 1 > TaskMaxRetries THEN <<>>
    ELSE [i \in 1..k |-> [id |-> id, retries |-> r + 1]]

\* a worker runs the task at the head of the queue
RunTask ==
    /\ enq # <<>>
    /\ Len(logTable) < MaxLogs
    /\ LET id == Head(enq).id IN
        IF ~store[id].live
        THEN \* Notification.DoesNotExist: return False
             /\ enq' = Tail(enq)
             /\ ret' = [op |-> "task", id |-> id]
             /\ UNCHANGED <<store, logTable, netCalls>>
        ELSE \E outcome \in OutcomesOf(store[id].obj.channel) :
             LET t == RunTaskOn(store[id].obj, outcome) IN
                /\ store' = [store EXCEPT ![id].obj = t.obj]
                /\ logTable' = Append(logTable,
                                      [notification |-> id, created_at |-> now,
                                       row |-> t.row])
                /\ netCalls' = netCalls + (IF t.network THEN 1 ELSE 0)
                /\ enq' = Tail(enq) \o RetryMessages(id, Head(enq).retries,
                                                     t.retries)
                /\ ret' = [op |-> "task", id |-> id]
    /\ UNCHANGED now
    /\ TableUnchanged

\* SendNotificationView.post: create_notification, then
\* send_notification_task.delay(id) when a notification came back
SendView(tname, recipient, priority, scheduled_at, dflt) ==
    /\ LET c == CreateNotification(store, registry, tname, recipient, priority,
                                   scheduled_at, now, dflt)
       IN  /\ Len(c.store) <= MaxRows
           /\ ~c.raised
           /\ store' = c.store
           /\ enq' = IF c.result = <<>> THEN enq
                     ELSE Append(enq, [id |-> c.result[1], retries |-> 0])
           /\ ret' = [op |-> "send_view", result |-> c.result,
                      scheduled_at |-> scheduled_at, at |-> now]
    /\ Len(enq') <= MaxEnq
    /\ UNCHANGED <<logTable, netCalls, now>>
    /\ TableUnchanged

\* the letters of the priority values, and the alphabet they are compared by
PriorityChars ==
    [low    |-> <<"l", "o", "w">>,
     normal |-> <<"n", "o", "r", "m", "a", "l">>,
     high   |-> <<"h", "i", "g", "h">>,
     urgent |-> <<"u", "r", "g", "e", "n", "t">>]

Alphabet ==
    <<"a", "b", "c", "d", "e", "f", "g", "h", "i", "j", "k", "l", "m",
      "n", "o", "p", "q", "r", "s", "t", "u", "v", "w", "x", "y", "z">>

CharRank(c) == CHOOSE i \in 1..Len(Alphabet) : Alphabet[i] = c

\* a < b for strings, as ORDER BY compares a CharField
RECURSIVE StrLess(_, _)
StrLess(a, b) ==
    IF b = <<>> THEN FALSE
    ELSE IF a = <<>> THEN TRUE
    ELSE IF Head(a) # Head(b) THEN CharRank(Head(a)) < CharRank(Head(b))
    ELSE StrLess(Tail(a), Tail(b))

\* row x sorts strictly before row y under order_by('priority', 'scheduled_at')
OrderedBefore(x, y) ==
    \/ StrLess(PriorityChars[x.priority], PriorityChars[y.priority])
    \/ x.priority = y.priority /\ x.scheduled_at < y.scheduled_at

\* filter(status='pending', scheduled_at__lte=now): the ids selected
DueIds(st, t) ==
    {i \in 1..Len(st) : /\ st[i].live
                         /\ st[i].obj.status = "pending"
                         /\ st[i].scheduled_at <= t}

\* the orders in which the query may return the ids: sorted, rows that
\* compare equal in any order
SortedOrders(st, ids) ==
    {o \in [1..Cardinality(ids) -> ids] :
        /\ \A i, j \in DOMAIN o : i # j => o[i] # o[j]
        /\ \A i, j \in DOMAIN o : i < j => ~OrderedBefore(st[o[j]], st[o[i]])}

\* process_scheduled_notifications: delay(id) for each selected row in turn
ScheduledSweepAll ==
    /\ \E o \in SortedOrders(store, DueIds(store, now)) :
        /\ enq' = enq \o [i \in DOMAIN o |-> [id |-> o[i], retries |-> 0]]
        /\ ret' = [op |-> "scheduled", enqueued |-> o, at |-> now]
    /\ Len(enq') <= MaxEnq
    /\ UNCHANGED <<store, logTable, netCalls, now>>
    /\ TableUnchanged

\* the instants SpecSched looks at
SchedInstants == {0, 1, 2}

\* scheduled_at of a request: none, or time 2
SchedSchedules == {<<>>, <<2>>}

SchedNext ==
    \/ \E priority \in Priorities, scheduled_at \in SchedSchedules :
           SendView("order_tg", <<"@", "a">>, priority, scheduled_at, FALSE)
    \/ \E priority \in Priorities, scheduled_at \in SchedSchedules :
           Create("order_tg", <<"@", "a">>, priority, scheduled_at, FALSE)
    \/ ScheduledSweepAll
    \/ RunTask
    \/ ClockAdvance(SchedInstants)

SpecSched == InitTable /\ [][SchedNext]_vars

(***************************************************************************)
(* SpecKeep: cleanup_old_notifications next to what makes rows and logs    *)
(* old: sends, mark_as_delivered, the user's mark-as-read view, time.      *)
(***************************************************************************)
\* variant: every row with an old delivered_at, whatever its status
ExpiredIdsAnyStatus(st, t) ==
    {i \in 1..Len(st) : /\ st[i].live
                         /\ st[i].delivered_on # <<>>
                         /\ st[i].delivered_on[1] < t - RetentionDays}

\* filter(status='delivered', delivered_at__lt=now - 30 days): the ids
\* selected (a NULL delivered_at is less than nothing)
ExpiredIds(st, t) ==
    {i \in 1..Len(st) : /\ st[i].live
                         /\ st[i].obj.status = "delivered"
                         /\ st[i].delivered_on # <<>>
                         /\ st[i].delivered_on[1] < t - RetentionDays}

\* cleanup_old_notifications: delete the selected notifications (their logs
\* go with them, on_delete=CASCADE), then
\* NotificationLog.objects.filter(created_at__lt=cutoff).delete()
Cleanup ==
    /\ LET gone == ExpiredIds(store, now) IN
        /\ store' = [i \in 1..Len(store) |->
                        IF i \in gone THEN [store[i] EXCEPT !.live = FALSE]
                        ELSE store[i]]
        /\ logTable' = SelectSeq(logTable,
                          LAMBDA l : /\ l.notification \notin gone
                                     /\ ~(l.created_at < now - RetentionDays))
        /\ ret' = [op |-> "cleanup", at |-> now, before |-> store,
                   logsBefore |-> logTable]
    /\ UNCHANGED <<enq, netCalls, now>>
    /\ TableUnchanged

\* notification.mark_as_delivered() on a notification of the table
DeliverRow(id) ==
    /\ store[id].live
    /\ store' = [store EXCEPT
                   ![id].obj = SaveDelivered(@, MarkAsDelivered(@)),
                   ![id].delivered_on = <<now>>]
    /\ ret' = [op |-> "mark_as_delivered", id |-> id]
    /\ UNCHANGED <<logTable, enq, netCalls, now>>
    /\ TableUnchanged

\* NotificationUserMarkReadView.patch on a notification of the table:
\* status = 'delivered', delivered_at left as it is
ReadRow(id) ==
    /\ store[id].live
    /\ store' = [store EXCEPT ![id].obj.status = "delivered"]
    /\ ret' = [op |-> "mark_read", id |-> id]
    /\ UNCHANGED <<logTable, enq, netCalls, now>>
    /\ TableUnchanged

\* the instants SpecKeep looks at: day 0, the day a retention window later
\* and the day after that
KeepInstants == {0, RetentionDays, RetentionDays + 1}

KeepNext ==
    \/ SendView("order_tg", <<"@", "a">>, "normal", <<>>, FALSE)
    \/ RunTask
    \/ \E id \in 1..Len(store) : DeliverRow(id)
    \/ \E id \in 1..Len(store) : ReadRow(id)
    \/ Cleanup
    \/ ClockAdvance(KeepInstants)

\* a notification whose sends all failed and used up its retries: the state
\* two failed runs of the send task leave a row in
ExhaustedRow ==
    [NewRow("order_tg", <<"@", "a">>, "normal", <<>>, 0) EXCEPT
        !.obj = RunTaskOn(RunTaskOn(@, "false").obj, "false").obj]

\* the table is empty, or holds one such notification from earlier on whose
\* log rows are gone already
InitKeep ==
    /\ cb = CircuitBreakerInit(ChannelFailureThreshold, ChannelRecoveryTimeout)
    /\ CallersInit
    /\ db = NewNotification("telegram")
    /\ WorkersIdle
    /\ life = NoLife
    /\ registry = BootRegistry
    /\ store \in {<<>>, <<ExhaustedRow>>}
    /\ logTable = <<>>
    /\ enq = <<>>
    /\ ret = NoRet
    /\ order = NoOrder

SpecKeep == InitKeep /\ [][KeepNext]_vars

(***************************************************************************)
(* SpecLive: one worker, the two periodic sweeps, and tasks that get lost. *)
(* The task steps and the sweeps are weakly fair; losing a task is not.    *)
(***************************************************************************)
\* the worker process stops in the middle of a task (a restart): the task's
\* remaining statements never run, what it saved so far stays saved
WorkerLost(w) ==
    /\ pc[w] # "idle"
    /\ Finish(w)
    /\ UNCHANGED <<db, queue, log, netCalls, chanFails, direct, breakers, life>>
    /\ UNCHANGED <<cbVars, appVars>>

\* a queued task is lost with the broker or with the worker that held it
\* until its countdown
QueuedTaskLost ==
    /\ \E r \in 0..TaskMaxRetries :
        /\ queue[r] > 0
        /\ queue' = [queue EXCEPT ![r] = @ - 1]
    /\ UNCHANGED <<db, pc, loc, req, seen, log, success, netCalls, chanFails,
                   direct, breakers, life>>
    /\ UNCHANGED <<cbVars, appVars>>

LiveWorker == "w1"

LiveTaskStart == TaskStart(LiveWorker, MaxStartedLive)

LiveNext ==
    \/ LiveTaskStart
    \/ TaskSetQueued(LiveWorker)
    \/ TaskSend(LiveWorker)
    \/ TaskMarkSent(LiveWorker)
    \/ TaskMarkFailed(LiveWorker)
    \/ TaskIncrementRetry(LiveWorker)
    \/ TaskRetry(LiveWorker)
    \/ HandlerGet(LiveWorker)
    \/ HandlerMarkFailed(LiveWorker)
    \/ HandlerIncrementRetry(LiveWorker)
    \/ HandlerRetry(LiveWorker)
    \/ ScheduledSweep
    \/ RetrySweep
    \/ WorkerLost(LiveWorker)
    \/ QueuedTaskLost

\* the worker executes what is queued and finishes what it began; celery
\* beat keeps running both sweeps
LiveFairness ==
    /\ WF_vars(LiveTaskStart)
    /\ WF_vars(TaskSetQueued(LiveWorker))
    /\ WF_vars(TaskSend(LiveWorker))
    /\ WF_vars(TaskMarkSent(LiveWorker))
    /\ WF_vars(TaskMarkFailed(LiveWorker))
    /\ WF_vars(TaskIncrementRetry(LiveWorker))
    /\ WF_vars(TaskRetry(LiveWorker))
    /\ WF_vars(HandlerGet(LiveWorker))
    /\ WF_vars(HandlerMarkFailed(LiveWorker))
    /\ WF_vars(HandlerIncrementRetry(LiveWorker))
    /\ WF_vars(HandlerRetry(LiveWorker))
    /\ WF_vars(ScheduledSweep)
    /\ WF_vars(RetrySweep)

SpecLive == InitTelegram /\ [][LiveNext]_vars /\ LiveFairness

(***************************************************************************)
(* SpecFactory: NotificationChannelFactory on its own.                     *)
(***************************************************************************)
\* the registrations made so far, oldest first
RegsOf(r) == IF r.op \in {"register", "resolve"} THEN r.regs ELSE <<>>

\* factory.register_channel(name, class)
Register(name, class) ==
    /\ Len(RegsOf(ret)) < MaxRegs
    /\ registry' = RegisterChannel(registry, name, class)
    /\ ret' = [op |-> "register", name |-> name,
               regs |-> Append(RegsOf(ret), <<name, class>>)]
    /\ UNCHANGED <<store, logTable, enq, order>>
    /\ UNCHANGED <<cbVars, taskVars>>

\* factory.create_channel(name)
Resolve(name) ==
    /\ ret' = [op |-> "resolve", name |-> name, regs |-> RegsOf(ret),
               result |-> ResolveChannel(registry, name), raised |-> FALSE,
               before |-> registry]
    /\ UNCHANGED <<store, logTable, enq, registry, order>>
    /\ UNCHANGED <<cbVars, taskVars>>

\* the class attribute _channels = {} before any registration
InitFactory ==
    /\ CallersInit
    /\ cb = CircuitBreakerInit(ChannelFailureThreshold, MaxTimeout)
    /\ db = NewNotification("telegram")
    /\ WorkersInit
    /\ life = NoLife
    /\ registry = <<>>

FactoryNext ==
    \/ \E name \in ChannelNames, class \in ChannelClasses : Register(name, class)
    \/ \E name \in ChannelNames : Resolve(name)

SpecFactory == InitFactory /\ [][FactoryNext]_vars

(***************************************************************************)
(* Creation, scheduling, retention, can_retry and the factory.             *)
(***************************************************************************)
\* C29: for a notification in any state, can_retry() is true exactly when
\* status = failed and retry_count < max_retries, and the call leaves the
\* object as it was.  (SpecLife)
C29_CanRetryIff ==
    life.op = "can_retry"
        => (/\ life.result <=> (/\ life.pre.status = "failed"
                                /\ life.pre.retry_count < life.pre.max_retries)
            /\ life.post = life.pre
            /\ ~life.raised)

\* C29 witness: can_retry() answered True for a failed notification with
\* retries left, and False for an exhausted one
C29_Witness ==
    /\ life.op = "can_retry"
    /\ life.pre.status = "failed"
    /\ life.result = (life.pre.retry_count < life.pre.max_retries)
    /\ life.pre.retry_count = life.pre.max_retries

\* the registrations of one name (compared as the factory compares names,
\* after lower()), oldest first
RegsFor(name) ==
    SelectSeq(RegsOf(ret), LAMBDA r : Lower(r[1]) = Lower(name))

\* C30: create_channel(name) returns a channel instance exactly when the name
\* has been registered, and then an instance of the class registered last
\* under it; for an unregistered name it returns None, raises nothing and
\* leaves the registry as it was.  Names are the same name when they agree
\* after lower().  (SpecFactory)
C30_ResolveIffRegistered ==
    ret.op = "resolve"
        => (/\ (ret.result # "None") <=> (RegsFor(ret.name) # <<>>)
            /\ RegsFor(ret.name) # <<>>
                   => ret.result = RegsFor(ret.name)[Len(RegsFor(ret.name))][2]
            /\ ~ret.raised
            /\ registry = ret.before)

\* C30 witness: a name registered twice with different classes was resolved,
\* and in another state a name never registered was resolved to None
C30_Witness ==
    /\ ret.op = "resolve"
    /\ Len(RegsFor(ret.name)) = 2
    /\ RegsFor(ret.name)[1][2] # RegsFor(ret.name)[2][2]
    /\ ret.result = RegsFor(ret.name)[2][2]

\* C30 witness, second case: an unregistered name resolved to None while
\* other names are registered
C30_WitnessUnknown ==
    /\ ret.op = "resolve"
    /\ RegsFor(ret.name) = <<>>
    /\ RegsOf(ret) # <<>>
    /\ ret.result = "None"

\* the notification has reached an end of its lifecycle
Settled ==
    \/ db.status \in {"sent", "delivered"}
    \/ db.status = "failed" /\ db.retry_count = db.max_retries

\* C26: with the worker and both sweeps running fairly, a due notification
\* eventually is sent (or delivered) or is failed with retry_count =
\* max_retries, also when a running or a queued task is lost on the way.
\* (SpecLive; runs that use up the executions the model allows are left out)
C26_EventuallySettled == <>(Settled \/ Started >= MaxStartedLive)

\* C21: create_notification returns None, raises nothing and leaves the
\* notifications table exactly as it was when the template name is unknown,
\* the template is inactive, its channel is not registered, or the channel's
\* validate_recipient answers False.  (SpecCreate)
C21_RejectedCreatePersistsNothing ==
    (/\ ret.op = "create"
     /\ ret.case \in {"missing", "inactive", "unresolved", "rejected"})
        => (/\ ret.result = <<>>
            /\ ~ret.raised
            /\ store = ret.before)

\* C21 witness: with a notification already in the table, a create for an
\* active template was refused because of its recipient
C21_Witness ==
    /\ ret.op = "create"
    /\ ret.case = "rejected"
    /\ ret.result = <<>>
    /\ Len(store) = 1

\* C21 witnesses of the other three cases
C21_WitnessMissing == ret.op = "create" /\ ret.case = "missing"
C21_WitnessInactive == ret.op = "create" /\ ret.case = "inactive"
C21_WitnessUnresolved == ret.op = "create" /\ ret.case = "unresolved"

\* the row the last create inserted
Created == store[ret.result[1]]

\* C22: a create_notification that returns a notification has added exactly
\* one row, leaving the others as they were; the row is pending with
\* retry_count 0, sent_at and delivered_at NULL and scheduled_at the argument
\* given, or the time of the call when none was given; no send was made, no
\* task queued and no NotificationLog row written.  (SpecCreate)
C22_CreatePersistsOnePending ==
    (ret.op = "create" /\ ret.result # <<>>)
        => (/\ ~ret.raised
            /\ store = Append(ret.before, Created)
            /\ ret.result = <<Len(store)>>
            /\ Created.live
            /\ Created.obj.status = "pending"
            /\ Created.obj.retry_count = 0
            /\ ~Created.obj.sent_at
            /\ ~Created.obj.delivered_at /\ Created.delivered_on = <<>>
            /\ Created.scheduled_at = IF ret.scheduled_at = <<>>
                                      THEN ret.at
                                      ELSE ret.scheduled_at[1]
            /\ ret.case = "accepted"
            /\ logTable = ret.logsBefore
            /\ netCalls = ret.netBefore
            /\ enq = ret.enqBefore)

\* C22 witness: a second notification was created at time 1 with a
\* scheduled_at of its own, the first one with none
C22_Witness ==
    /\ ret.op = "create" /\ ret.result = <<2>>
    /\ ret.scheduled_at # <<>> /\ ret.at = 1
    /\ store[2].scheduled_at = ret.scheduled_at[1]
    /\ store[1].scheduled_at = 1

\* C23: send_bulk_notifications, for a usable template, skips the entries
\* whose recipient fails validation (an empty or absent one included)
\* without raising, and returns the notifications of the other entries, one
\* each and in input order: n - k of them for k invalid entries out of n.
\* (SpecCreate)
C23_BulkSkipsInvalid ==
    (ret.op = "bulk" /\ ret.case = "usable")
        => (/\ ~ret.raised
            /\ Len(ret.result) = Len(ret.valid)
            /\ \A i \in 1..Len(ret.result) :
                   /\ ret.result[i] = Len(ret.before) + i
                   /\ store[ret.result[i]].recipient = ret.valid[i]
            /\ Len(store) = Len(ret.before) + Len(ret.result))

\* C24: no send is attempted for a notification before its scheduled_at: as
\* long as now < scheduled_at the notification is pending and has no log
\* row, whether its task was queued at creation or by the scheduled sweep.
\* (SpecSched)
C24_NoSendBeforeScheduledAt ==
    /\ \A i \in 1..Len(store) :
          now < store[i].scheduled_at
              => (/\ store[i].obj.status = "pending"
                  /\ \A k \in 1..Len(logTable) : logTable[k].notification # i)
    /\ \A k \in 1..Len(logTable) :
          store[logTable[k].notification].scheduled_at <= logTable[k].created_at

\* the priority levels, most pressing first
PriorityLevel(p) ==
    CASE p = "urgent" -> 1 [] p = "high" -> 2 [] p = "normal" -> 3
      [] p = "low" -> 4

\* C25: the scheduled sweep queues the due pending notifications urgent
\* first, then high, normal and low, and by ascending scheduled_at within one
\* priority.  (SpecSched)
C25_SweepOrder ==
    ret.op = "scheduled"
        => \A i, j \in DOMAIN ret.enqueued :
              i < j =>
                LET x == store[ret.enqueued[i]]
                    y == store[ret.enqueued[j]]
                IN  \/ PriorityLevel(x.priority) < PriorityLevel(y.priority)
                    \/ /\ x.priority = y.priority
                       /\ x.scheduled_at <= y.scheduled_at

\* the rows the last cleanup deleted
Deleted ==
    {i \in 1..Len(store) : ret.before[i].live /\ ~store[i].live}

\* C27: cleanup_old_notifications deletes a notification only if its status
\* is delivered and its delivered_at is more than RetentionDays before the
\* sweep; every other notification, a failed one in particular, is still
\* there afterwards exactly as it was.  (SpecKeep)
C27_CleanupDeletesOnlyExpiredDelivered ==
    ret.op = "cleanup"
        => (/\ Len(store) = Len(ret.before)
            /\ \A i \in Deleted :
                   /\ ret.before[i].obj.status = "delivered"
                   /\ ret.before[i].delivered_on # <<>>
                   /\ ret.at - ret.before[i].delivered_on[1] > RetentionDays
            /\ \A i \in (1..Len(store)) \ Deleted : store[i] = ret.before[i])

\* C27 witness: one cleanup deleted an expired delivered notification and
\* kept a failed one that is older still
C27_Witness ==
    /\ ret.op = "cleanup"
    /\ Deleted # {}
    /\ \E i \in (1..Len(store)) \ Deleted :
          /\ store[i].live
          /\ store[i].obj.status = "failed"
          /\ store[i].obj.error_message # ""
          /\ store[i].obj.retry_count = store[i].obj.max_retries
          /\ ret.at - store[i].scheduled_at > RetentionDays

\* the log rows, in order, of the notifications that are in the table
LogsOfLive(logs) ==
    SelectSeq(logs, LAMBDA l : store[l.notification].live)

\* C28: a cleanup removes a NotificationLog row only together with the
\* notification it belongs to: the log rows of every notification the sweep
\* leaves in the table (failed, sent, pending, ...) are all still there,
\* unchanged, however old they are.  (SpecKeep)
C28_LogsGoOnlyWithTheirNotification ==
    ret.op = "cleanup" => LogsOfLive(ret.logsBefore) = LogsOfLive(logTable)

(***************************************************************************)
(* Claims about the state of a CircuitBreaker.                             *)
(***************************************************************************)
\* C38: in every state of a CircuitBreaker built with failure_threshold >= 1,
\* failure_count >= 0; a closed breaker has failure_count below the
\* threshold; an open or half-open breaker has failure_count at or above the
\* threshold and a last_failure_time that is set.  (SpecCB)
C38_BreakerInvariant ==
    /\ cb.failure_count >= 0
    /\ cb.state = "closed" => cb.failure_count < cb.failure_threshold
    /\ cb.state \in {"open", "half_open"} =>
           /\ cb.failure_count >= cb.failure_threshold
           /\ cb.last_failure_time # <<>>

\* a half-open breaker is failed again by its probe: the count lies above
\* the threshold and the breaker is open
C38_Witness ==
    /\ lastOp.kind = "raise"
    /\ lastOp.pre.state = "half_open"
    /\ cb.state = "open"
    /\ cb.failure_count > cb.failure_threshold

(***************************************************************************)
(* SpecValidate: one TelegramChannel object; validate_recipient is called  *)
(* on recipients of every shape between sends through its breaker.        *)
(***************************************************************************)
\* characters a recipient is made of: an at sign, a minus sign, a digit and
\* a letter
ValidateChars == {"@", "-", "1", "a"}

\* the strings of at most MaxRecipientLen characters, and None
ValidateRecipients ==
    {NoneRecipient} \cup
    UNION {[1..n -> ValidateChars] : n \in 0..MaxRecipientLen}

\* channel.validate_recipient(recipient) on the TelegramChannel object whose
\* breaker is cb; nothing is assigned
ValidateCall(recipient, dflt) ==
    /\ ret' = [op |-> "validate", recipient |-> recipient,
               default_chat_id |-> dflt,
               result |-> ValidateTelegram(recipient, dflt),
               before |-> cb]
    /\ UNCHANGED <<store, logTable, enq, netCalls, now>>
    /\ TableUnchanged

\* TelegramChannel.send: circuit_breaker.call(_send_telegram_message), any
\* exception caught and False returned
ChannelSend(outcome) ==
    /\ LET r == BreakerCall(cb, now, outcome) IN
        /\ cb' = r.cb
        /\ ret' = [op |-> "send", before |-> cb,
                   result |-> ChannelSendResult(r.admitted, outcome)]
    /\ UNCHANGED <<store, logTable, enq, netCalls, now>>
    /\ UNCHANGED <<db, queue, pc, loc, req, seen, log, success, chanFails,
                   direct, breakers, life, registry, order>>
    /\ UNCHANGED <<cpc, admittedIn, consecRaises, lastOp>>

ValidateNext ==
    \/ \E recipient \in ValidateRecipients, dflt \in BOOLEAN :
           ValidateCall(recipient, dflt)
    \/ \E outcome \in OutcomesOf("telegram") : ChannelSend(outcome)

SpecValidate == InitTable /\ [][ValidateNext]_vars

\* the recipient formats of a chat-bot channel: digits, a minus sign followed
\* by digits, or an at sign followed by at least one character
IsChatRecipient(r) ==
    /\ Len(r) > 0
    /\ \/ AllIn(r, Digits)
       \/ r[1] = "-" /\ Len(r) > 1 /\ AllIn(Tail(r), Digits)
       \/ r[1] = "@" /\ Len(r) > 1

\* C40: TelegramChannel.validate_recipient(r) is true exactly when r is a
\* non-empty string of digits, a minus sign followed by digits, or an at sign
\* followed by at least one character; for an empty r exactly when a default
\* chat id is configured; and it changes no state, the breaker included.
\* (SpecValidate)
C40_ValidExactly ==
    ret.op = "validate" =>
        /\ cb = ret.before
        /\ IF ret.recipient = NoneRecipient \/ ret.recipient = <<>>
           THEN (ret.result = "true") <=> ret.default_chat_id
           ELSE (ret.result = "true") <=> IsChatRecipient(ret.recipient)

(***************************************************************************)
(* Claims about the retries of the send task.                              *)
(***************************************************************************)
\* no execution of the send task is under way
AllIdle == \A w \in Workers : pc[w] = "idle"

\* C33: each failed execution of the send task for which can_retry() holds
\* increments retry_count by exactly one, leaves the status retrying and
\* schedules exactly one re-execution; so with the notification enqueued once
\* and no execution under way, a retrying notification has as many retries
\* counted as sends have failed, and one task waiting.  (SpecOnce)
C33_OneRetryPerFailure ==
    (AllIdle /\ db.status = "retrying") =>
        /\ db.retry_count = Cardinality(FailedRows)
        /\ QueueLen(queue) = 1

\* C34: the countdown of a retry is 60 * 2^r, r being the retry_count of the
\* notification when the retry is scheduled, and each retry scheduled for the
\* notification waits twice as long as the one scheduled before it.
\* (SpecOnce)
C34_BackoffDoubles ==
    ret.op = "retry" =>
        /\ ret.countdown = BackoffBase * 2 ^ ret.retry_count
        /\ ret.previous # 0 => ret.countdown = 2 * ret.previous

\* SpecAttempts: the task layer for a notification enqueued once, with room
\* for every execution its retries can cause
AttemptsNext ==
    \/ \E w \in Workers : TaskStart(w, MaxStartedAttempts)
    \/ \E w \in Workers : TaskSetQueued(w)
    \/ \E w \in Workers : TaskSend(w)
    \/ \E w \in Workers : TaskMarkSent(w)
    \/ \E w \in Workers : TaskMarkFailed(w)
    \/ \E w \in Workers : TaskIncrementRetry(w)
    \/ \E w \in Workers : TaskRetry(w)
    \/ \E w \in Workers : HandlerGet(w)
    \/ \E w \in Workers : HandlerMarkFailed(w)
    \/ \E w \in Workers : HandlerIncrementRetry(w)
    \/ \E w \in Workers : HandlerRetry(w)

SpecAttempts == Init /\ [][AttemptsNext]_vars

\* C35: for a notification enqueued once, the sends attempted by its task and
\* the task's retries never number more than max_retries + 1.
\* (SpecAttempts)
C35_AttemptsBounded ==
    Len(log) <= db.max_retries + 1

(***************************************************************************)
(* SpecRetry: retry_failed_notifications on a table whose rows are in the  *)
(* states send tasks leave behind, finished or interrupted between two     *)
(* saves.                                                                  *)
(***************************************************************************)
\* the row of a notification whose send task (wrapped call failing) was
\* stopped after one of its saves: status queued; mark_as_failed;
\* increment_retry; the handler's mark_as_failed; the handler's
\* increment_retry
FailingStages(obj) ==
    LET n0 == [obj EXCEPT !.status = "queued"]
        d0 == SaveStatus(obj, n0)
        n1 == MarkAsFailed(n0, "Failed to send notification")
        d1 == SaveFailed(d0, n1)
        d2 == SaveRetry(d1, IncrementRetry(n1))
        h1 == MarkAsFailed(d2, "Retry")
        d3 == SaveFailed(d2, h1)
        d4 == SaveRetry(d3, IncrementRetry(h1))
    IN  {d0, d1} \cup (IF CanRetry(n1) THEN {d2, d3} ELSE {})
                 \cup (IF CanRetry(n1) /\ CanRetry(h1) THEN {d4} ELSE {})

\* the notification objects SpecRetry starts with: new, sent, or left by a
\* first, second or third failing execution
RetryObjs ==
    LET fresh  == NewNotification("telegram")
        once   == RunTaskOn(fresh, "false").obj
        twice  == RunTaskOn(once, "false").obj
    IN  {fresh, RunTaskOn(fresh, "ok").obj}
            \cup FailingStages(fresh) \cup FailingStages(once)
            \cup FailingStages(twice)

RetryRows ==
    {[NewRow("order_tg", <<"@", "a">>, "normal", <<>>, 0) EXCEPT !.obj = o] :
        o \in RetryObjs}

\* variant of the selection: every failed row
RetrySelectedAnyFailed(st) ==
    {i \in 1..Len(st) : st[i].live /\ st[i].obj.status = "failed"}

\* filter(status='failed', retry_count__lt=F('max_retries')) and, for each
\* row found, `if notification.can_retry()`: the ids a task is queued for
RetrySelected(st) ==
    {i \in 1..Len(st) : /\ st[i].live
                         /\ st[i].obj.status = "failed"
                         /\ st[i].obj.retry_count < st[i].obj.max_retries
                         /\ CanRetry(st[i].obj)}

\* the orders in which the query (no order_by of its own) may return the
\* ids: every order is taken
AnyOrders(ids) ==
    {o \in [1..Cardinality(ids) -> ids] :
        \A i, j \in DOMAIN o : i # j => o[i] # o[j]}

\* retry_failed_notifications: delay(id) for each selected row, counted
RetrySweepAll ==
    /\ \E o \in AnyOrders(RetrySelected(store)) :
        /\ enq' = enq \o [i \in DOMAIN o |-> [id |-> o[i], retries |-> 0]]
        /\ ret' = [op |-> "retry_sweep", enqueued |-> o, result |-> Len(o),
                   before |-> store, enqBefore |-> enq,
                   logsBefore |-> logTable]
    /\ Len(enq') <= MaxEnq
    /\ UNCHANGED <<store, logTable, netCalls, now>>
    /\ TableUnchanged

RetryNext ==
    \/ RetrySweepAll
    \/ RunTask

InitRetry ==
    /\ cb = CircuitBreakerInit(ChannelFailureThreshold, ChannelRecoveryTimeout)
    /\ CallersInit
    /\ db = NewNotification("telegram")
    /\ WorkersIdle
    /\ life = NoLife
    /\ registry = BootRegistry
    /\ store \in UNION {[1..n -> RetryRows] : n \in 0..MaxRows}
    /\ logTable = <<>>
    /\ enq = <<>>
    /\ ret = NoRet
    /\ order = NoOrder

SpecRetry == InitRetry /\ [][RetryNext]_vars

(***************************************************************************)
(* Claims about the sweeps on the table.                                   *)
(***************************************************************************)
\* the send tasks waiting in queue q for notification id
Waiting(q, id) == {k \in DOMAIN q : q[k].id = id}

\* C36: a scheduled sweep enqueues only notifications that are pending and
\* due, and enqueueing moves the notification from pending to queued, so that
\* a sweep run before the send task has executed does not enqueue it a second
\* time: after a sweep each notification it enqueued is queued and has one
\* send task waiting.  (SpecSched)
C36_SweepEnqueuesOnce ==
    ret.op = "scheduled" =>
        \A i \in DOMAIN ret.enqueued :
            LET id == ret.enqueued[i] IN
                /\ store[id].scheduled_at <= ret.at
                /\ store[id].obj.status = "queued"
                /\ Cardinality(Waiting(enq, id)) = 1

\* the rows of table st that are failed with retries left
FailedWithRetriesLeft(st) ==
    {i \in 1..Len(st) : /\ st[i].live
                         /\ st[i].obj.status = "failed"
                         /\ st[i].obj.retry_count < st[i].obj.max_retries}

ContextKeys == {"customer_name", "order_id"}

\* the `context` argument: None or a dict
GlobalContexts ==
    {[kind |-> "none", d |-> <<>>]} \cup
    {[kind |-> "dict", d |-> [k \in D |-> "global"]] : D \in SUBSET ContextKeys}

\* the 'context' of an entry: no such key, None, or a dict with one key or
\* with both
EntryContexts ==
    {[kind |-> "absent", d |-> <<>>], [kind |-> "none", d |-> <<>>]} \cup
    {[kind |-> "dict", d |-> [k \in D |-> "own"]] :
        D \in {{"customer_name"}, ContextKeys}}

\* `context or {}`
OrEmpty(c) == IF c.kind = "dict" THEN c.d ELSE <<>>

\* variant of the merge: the left dict wins
MergeGlobalWins(a, b) ==
    [k \in DOMAIN a \cup DOMAIN b |-> IF k \in DOMAIN a THEN a[k] ELSE b[k]]

\* {**a, **b}
Merge(a, b) ==
    [k \in DOMAIN a \cup DOMAIN b |-> IF k \in DOMAIN b THEN b[k] ELSE a[k]]

\* the loop of send_bulk_notifications as far as the contexts go: the merged
\* context handed to create_notification for each entry in turn.
\* recipient_data.get('context', {}) is {} for a missing key and None for a
\* None value, and {**x, **None} raises TypeError, which ends the loop.
RECURSIVE MergedContexts(_, _, _)
MergedContexts(context, entries, acc) ==
    IF entries = <<>> THEN [contexts |-> acc, raised |-> FALSE]
    ELSE IF Head(entries).context.kind = "none"
    THEN [contexts |-> acc, raised |-> TRUE]
    ELSE MergedContexts(context, Tail(entries),
                        Append(acc, Merge(OrEmpty(context),
                                          Head(entries).context.d)))

\* send_bulk_notifications(template_name, recipients, context): the entries
\* reached are created one by one with their merged contexts
BulkContext(tname, context, entries) ==
    /\ LET m == MergedContexts(context, entries, <<>>)
           b == SendBulk(store, registry, tname,
                         [i \in DOMAIN m.contexts |-> entries[i].recipient],
                         "normal", now, FALSE, <<>>)
       IN  /\ Len(b.store) <= MaxRows
           /\ store' = b.store
           /\ ret' = [op |-> "bulk_context", context |-> context,
                      entries |-> entries, contexts |-> m.contexts,
                      result |-> b.result, raised |-> m.raised \/ b.raised]
    /\ UNCHANGED <<logTable, enq, netCalls, now>>
    /\ TableUnchanged

\* the entries of a request: a valid telegram recipient each, with any context
ContextEntries ==
    UNION {[1..n -> [recipient : {<<"@", "a">>}, context : EntryContexts]] :
              n \in 1..MaxBulk}

MergeNext ==
    \E context \in GlobalContexts, entries \in ContextEntries :
        BulkContext("order_tg", context, entries)

SpecMerge == InitCreate /\ [][MergeNext]_vars

\* C39: in send_bulk_notifications the context each entry's notification is
\* created with is the global context overridden by the entry's own: a key
\* in both has the entry's value, a key in only one is kept, and nothing of
\* another entry's context appears in it.  (SpecMerge)
C39_MergedContext ==
    ret.op = "bulk_context" =>
        /\ ~ret.raised => Len(ret.contexts) = Len(ret.entries)
        /\ Len(ret.result) = Len(ret.contexts)
        /\ \A i \in DOMAIN ret.contexts :
            LET c   == ret.contexts[i]
                g   == IF ret.context.kind = "dict" THEN ret.context.d ELSE <<>>
                own == ret.entries[i].context.d
            IN  /\ DOMAIN c = DOMAIN g \cup DOMAIN own
                /\ \A k \in DOMAIN own : c[k] = "own"
                /\ \A k \in DOMAIN g \ DOMAIN own : c[k] = "global"

\* a request whose first entry overrides a global key and adds one of its
\* own, and whose second entry has no context: the second notification got
\* the global context alone
C39_Witness ==
    /\ ret.op = "bulk_context"
    /\ ~ret.raised
    /\ Len(ret.contexts) = 2
    /\ ret.context.kind = "dict" /\ DOMAIN ret.context.d = {"order_id"}
    /\ DOMAIN ret.entries[1].context.d = ContextKeys
    /\ ret.entries[2].context.kind = "absent"
    /\ ret.contexts[1]["order_id"] = "own"
    /\ ret.contexts[2] = ret.context.d

(***************************************************************************)
(* SpecRender: NotificationService._render_template.  A template string is *)
(* a sequence of tokens, as django.template.Template splits it: literal    *)
(* text, a variable tag {{name}}, or a tag the parser rejects (the empty   *)
(* variable tag {{}}).  Strings are sequences of characters.               *)
(***************************************************************************)
RenderTokens ==
    {[kind |-> "text", s |-> <<"H", "i">>, name |-> ""],
     [kind |-> "var",  s |-> <<"n">>, name |-> "n"],
     [kind |-> "var",  s |-> <<"o">>, name |-> "o"],
     [kind |-> "bad",  s |-> <<>>, name |-> ""]}

\* the template strings: up to MaxTokens tokens
RenderTemplates == UNION {[1..n -> RenderTokens] : n \in 0..MaxTokens}

\* values of the context variables
RenderValues == {<<"A", "l">>, <<"A", "&", "B">>}

\* context_data: a dict over the variable names
RenderContexts ==
    UNION {[D -> RenderValues] : D \in SUBSET {"n", "o"}}

RECURSIVE Concat(_)
Concat(ss) == IF ss = <<>> THEN <<>> ELSE Head(ss) \o Concat(Tail(ss))

\* the characters of a token in the template string
RawToken(tok) ==
    IF tok.kind = "text" THEN tok.s
    ELSE <<"{", "{">> \o tok.s \o <<"}", "}">>

\* the template string itself
RawString(template) ==
    Concat([i \in DOMAIN template |-> RawToken(template[i])])

\* django.utils.html.escape, applied to a variable's value under autoescape
EscapeChar(c) ==
    IF c = "&" THEN <<"&", "a", "m", "p", ";">>
    ELSE IF c = "<" THEN <<"&", "l", "t", ";">>
    ELSE IF c = ">" THEN <<"&", "g", "t", ";">>
    ELSE <<c>>

Escape(v) == Concat([i \in DOMAIN v |-> EscapeChar(v[i])])

\* template.render(context) for one token: text as it is, a variable's
\* value (escaped under autoescape), nothing for a variable the context
\* lacks (string_if_invalid is '')
RenderToken(tok, ctx, autoescape) ==
    IF tok.kind = "text" THEN tok.s
    ELSE IF tok.name \in DOMAIN ctx
         THEN IF autoescape THEN Escape(ctx[tok.name]) ELSE ctx[tok.name]
         ELSE <<>>

\* _render_template: "" for an empty template string; the rendered
\* template; and, when Template(template_string) raises
\* (TemplateSyntaxError for a tag the parser rejects), the template string
\* as it is.  No exception leaves the method.
RenderTemplate(template, ctx, autoescape) ==
    IF template = <<>> THEN <<>>
    ELSE IF \E i \in DOMAIN template : template[i].kind = "bad"
    THEN RawString(template)
    ELSE Concat([i \in DOMAIN template |->
                    RenderToken(template[i], ctx, autoescape)])

\* a call of _render_template(template_string, context_data); autoescape is
\* the template engine's setting
Render(template, ctx, autoescape) ==
    /\ ret' = [op |-> "render", template |-> template, context |-> ctx,
               autoescape |-> autoescape,
               out |-> RenderTemplate(template, ctx, autoescape),
               raised |-> FALSE]
    /\ UNCHANGED <<store, logTable, enq, netCalls, now>>
    /\ TableUnchanged

RenderNext ==
    \E template \in RenderTemplates, ctx \in RenderContexts,
       autoescape \in BOOLEAN :
        Render(template, ctx, autoescape)

SpecRender == InitTable /\ [][RenderNext]_vars

\* string s contains the string sub
Contains(s, sub) ==
    \E i \in 1..(Len(s) - Len(sub) + 1) :
        SubSeq(s, i, i + Len(sub) - 1) = sub

\* C31: rendering never raises; every placeholder whose variable is in the
\* context is replaced by that value and every placeholder whose variable is
\* missing by empty text, so the result contains the supplied values and no
\* '{{' or '}}' marker.  (SpecRender)
C31_RenderedWithoutMarkers ==
    ret.op = "render" =>
        /\ ~ret.raised
        /\ \A i \in DOMAIN ret.template :
               (/\ ret.template[i].kind = "var"
                /\ ret.template[i].name \in DOMAIN ret.context)
                   => Contains(ret.out, ret.context[ret.template[i].name])
        /\ ~Contains(ret.out, <<"{", "{">>)
        /\ ~Contains(ret.out, <<"}", "}">>)

(***************************************************************************)
(* SpecOrder: Order.update_status (apps/orders/models.py) called by the    *)
(* status views on the order object they loaded, the broker taking the     *)
(* order-update task or refusing it, and a worker running the task.        *)
(***************************************************************************)
\* the values of Order.status the model uses
OrderStatuses == {"pending", "confirmed", "shipped"}

\* an order as created: pending, no timestamp
NewOrder ==
    [status |-> "pending", confirmed_at |-> <<>>, shipped_at |-> <<>>,
     delivered_at |-> <<>>]

\* update_status up to the save: the status and the timestamp of the new
\* status if it is not set yet
SetStatus(o, new_status, t) ==
    [o EXCEPT !.status = new_status,
              !.confirmed_at = IF new_status = "confirmed" /\ @ = <<>>
                               THEN <<t>> ELSE @,
              !.shipped_at = IF new_status = "shipped" /\ @ = <<>>
                             THEN <<t>> ELSE @,
              !.delivered_at = IF new_status = "delivered" /\ @ = <<>>
                               THEN <<t>> ELSE @]

\* the message apply_async sends; stored is history: the status in the
\* order's row at that moment
OrderTask(old_status, new_status, row) ==
    [old_status |-> old_status, new_status |-> new_status,
     stored |-> row.status]

\* variant of update_status: the notification is triggered before the save
UpdateStatusTriggerFirst(o, new_status, save, broker, t) ==
    LET old_status == o.obj.status
        obj == SetStatus(o.obj, new_status, t)
    IN  [obj |-> obj,
         row |-> IF save THEN obj ELSE o.row,
         tasks |-> IF old_status # new_status /\ broker = "up"
                   THEN Append(o.tasks,
                               OrderTask(old_status, new_status, o.row))
                   ELSE o.tasks]

\* update_status(new_status, save) on the order object o.obj: assignments,
\* save, then _trigger_status_notification when the status changed, whose
\* apply_async puts the task on the broker (broker "up") or raises
UpdateStatusOn(o, new_status, save, broker, t) ==
    LET old_status == o.obj.status
        obj == SetStatus(o.obj, new_status, t)
        row == IF save THEN obj ELSE o.row
    IN  [obj |-> obj,
         row |-> row,
         tasks |-> IF old_status # new_status /\ broker = "up"
                   THEN Append(o.tasks, OrderTask(old_status, new_status, row))
                   ELSE o.tasks]

\* the customer's e-mail address
CustomerEmail == <<"a", "@", "b", ".", "c", "o">>

\* send_order_update_notification for a customer with an e-mail address and
\* no preferences row: create_notification with the e-mail template, then
\* send_notification_task.delay, which raises when the broker is down (the
\* task catches it and returns False)
OrderUpdateTask(st, q, reg, broker, t) ==
    LET c == CreateNotification(st, reg, "order_mail", CustomerEmail, "normal",
                                <<>>, t, FALSE)
    IN  [store |-> c.store,
         enq |-> IF c.result # <<>> /\ broker = "up"
                 THEN Append(q, [id |-> c.result[1], retries |-> 0])
                 ELSE q]

\* a status view: order.update_status(new_status); when apply_async raises
\* the task is run directly in the request
UpdateStatus(new_status, save, broker) ==
    /\ LET u == UpdateStatusOn(order, new_status, save, broker, now)
           inline == order.obj.status # new_status /\ broker = "down"
           f == OrderUpdateTask(store, enq, registry, broker, now)
       IN  /\ Len(u.tasks) <= MaxOrderTasks
           /\ order' = u
           /\ IF inline
              THEN /\ Len(f.store) <= MaxRows
                   /\ store' = f.store
              ELSE UNCHANGED store
           /\ ret' = [op |-> "update_status", old |-> order.obj.status,
                      new |-> new_status, save |-> save, broker |-> broker,
                      before |-> order.tasks, inline |-> inline]
    /\ UNCHANGED <<logTable, enq, netCalls, now>>
    /\ TableRest

\* get_object_or_404: a request loads the order from its row
LoadOrder ==
    /\ order.obj # order.row
    /\ order' = [order EXCEPT !.obj = order.row]
    /\ ret' = [op |-> "load"]
    /\ UNCHANGED <<store, logTable, enq, netCalls, now>>
    /\ TableRest

\* a worker runs the order-update task at the head of the broker's queue
RunOrderTask ==
    /\ order.tasks # <<>>
    /\ LET f == OrderUpdateTask(store, enq, registry, "up", now) IN
        /\ Len(f.store) <= MaxRows
        /\ Len(f.enq) <= MaxEnq
        /\ store' = f.store
        /\ enq' = f.enq
    /\ order' = [order EXCEPT !.tasks = Tail(@)]
    /\ ret' = [op |-> "order_task"]
    /\ UNCHANGED <<logTable, netCalls, now>>
    /\ TableRest

OrderNext ==
    \/ \E new_status \in OrderStatuses, save \in BOOLEAN,
          broker \in {"up", "down"} :
           UpdateStatus(new_status, save, broker)
    \/ LoadOrder
    \/ RunOrderTask

InitOrder ==
    /\ cb = CircuitBreakerInit(ChannelFailureThreshold, ChannelRecoveryTimeout)
    /\ CallersInit
    /\ db = NewNotification("telegram")
    /\ WorkersIdle
    /\ life = NoLife
    /\ registry = BootRegistry
    /\ store = <<>>
    /\ logTable = <<>>
    /\ enq = <<>>
    /\ ret = NoRet
    /\ order = [obj |-> NewOrder, row |-> NewOrder, tasks |-> <<>>]

SpecOrder == InitOrder /\ [][OrderNext]_vars

C32_WitnessSame ==
    /\ ret.op = "update_status" /\ ret.save /\ ret.broker = "up"
    /\ ret.old = "shipped" /\ ret.new = "shipped"
    /\ order.tasks = ret.before

====
